---- MODULE Spec2Model ----
(***************************************************************************)
(* Replacement-model coordination server: the shared override record, its  *)
(* HTTP and WebSocket front-ends and the broadcast fan-out, modelled from  *)
(* server/replacementModelServer.ts (and its revision with slider          *)
(* persistence, which shares the override code line for line).             *)
(***************************************************************************)
EXTENDS Integers, Sequences, FiniteSets, TLC

(***************************************************************************)
(* Bounds of the model.                                                    *)
(***************************************************************************)
MaxConn == 2
MaxOps == 3
MaxPending == 1
MaxFails == 1
MaxAttempts == 3
MaxStarts == 4

Conns == 1..MaxConn

(***************************************************************************)
(* JavaScript values as they come out of JSON.parse.  A value carries its  *)
(* typeof tag; numbers carry whether they are finite.                      *)
(***************************************************************************)
Undef == [t |-> "undefined"]
JNull == [t |-> "null"]
JBool(b) == [t |-> "boolean", b |-> b]
JNum(n) == [t |-> "number", k |-> "finite", n |-> n]
JInf == [t |-> "number", k |-> "Infinity", n |-> 0]
JNaN == [t |-> "number", k |-> "NaN", n |-> 0]
JStr(s) == [t |-> "string", s |-> s]

\* An object literal with the six override fields (absent ones are Undef).
JObj(mp, sc, ro, el, vi, cl) ==
  [t |-> "object",
   fields |-> [modelPath |-> mp, scale |-> sc, rotation |-> ro,
               elevation |-> el, visible |-> vi, cleared |-> cl]]

\* value == null in JavaScript: true of null and of undefined.
IsNullish(v) == v.t \in {"undefined", "null"}

\* String.prototype.trim on the strings the model uses.
Trim(s) ==
  CASE s = " " -> ""
    [] s = " a " -> "a"
    [] OTHER -> s

\* Number(string) on the strings the model uses.
StringToNumber(s) ==
  CASE s = "2" -> JNum(2)
    [] s = "30" -> JNum(30)
    [] s = "0" -> JNum(0)
    [] s = "-1" -> JNum(-1)
    [] s = "" -> JNum(0)
    [] s = " " -> JNum(0)
    [] s = "Infinity" -> JInf
    [] OTHER -> JNaN

Ok(v) == [ok |-> TRUE, value |-> v, error |-> ""]
Throw(m) == [ok |-> FALSE, value |-> Undef, error |-> m]

\* coerceNumber on a string: parsed is Number(value).
coerceParsed(parsed) ==
  IF parsed.k # "NaN" THEN Ok(parsed)
  ELSE Throw("Numeric field must be a number or numeric string")

coerceNumber(value) ==
  IF value.t = "number" THEN Ok(value)
  ELSE IF value.t = "string" THEN coerceParsed(StringToNumber(value.s))
  ELSE Throw("Numeric field must be a number or numeric string")

IsFinite(num) == num.k = "finite"

(***************************************************************************)
(* The override.  null is NullOverride; an object is a function from the   *)
(* names of the fields it has to their values.                             *)
(***************************************************************************)
NullOverride == [null |-> TRUE]
EmptyObject == [k \in {} |-> TRUE]
Cleared == [cleared |-> TRUE, visible |-> FALSE]

Has(o, f) == f \in DOMAIN o
\* { ...a, ...b }
Spread(a, b) ==
  [k \in (DOMAIN a) \cup (DOMAIN b) |-> IF k \in DOMAIN b THEN b[k] ELSE a[k]]
\* delete o.f
Delete(o, f) == [k \in (DOMAIN o) \ {f} |-> o[k]]
\* o.f = v
Assign(o, f, v) == [k \in (DOMAIN o) \cup {f} |-> IF k = f THEN v ELSE o[k]]
\* override ?? {}
OrEmpty(o) == IF o = NullOverride THEN EmptyObject ELSE o

(***************************************************************************)
(* normalizeOverrides: the checks run in the source's order and the first  *)
(* failure throws.                                                         *)
(***************************************************************************)
modelPathCheck(f) ==
  IF IsNullish(f.modelPath) THEN Ok(EmptyObject)
  ELSE IF f.modelPath.t # "string" \/ Trim(f.modelPath.s) = ""
       THEN Throw("modelPath must be a non-empty string when provided")
  ELSE Ok([modelPath |-> f.modelPath.s])

\* The scale rule applied to numeric, the outcome of coerceNumber(scale).
positiveNumber(numeric) ==
  IF ~numeric.ok THEN Throw(numeric.error)
  ELSE IF ~IsFinite(numeric.value) \/ numeric.value.n <= 0
       THEN Throw("scale must be a positive number when provided")
  ELSE Ok([scale |-> numeric.value.n])

scaleCheck(f) ==
  IF IsNullish(f.scale) THEN Ok(EmptyObject)
  ELSE positiveNumber(coerceNumber(f.scale))

\* The rotation/elevation rule applied to numeric = coerceNumber(f[name]).
finiteNumber(numeric, name) ==
  IF ~numeric.ok THEN Throw(numeric.error)
  ELSE IF ~IsFinite(numeric.value)
       THEN Throw(name \o " must be a finite number when provided")
  ELSE Ok([k \in {name} |-> numeric.value.n])

finiteCheck(f, name) ==
  IF IsNullish(f[name]) THEN Ok(EmptyObject)
  ELSE finiteNumber(coerceNumber(f[name]), name)

visibleCheck(f) ==
  IF IsNullish(f.visible) THEN Ok(EmptyObject)
  ELSE IF f.visible.t = "boolean" THEN Ok([visible |-> f.visible.b])
  ELSE IF f.visible.t = "string" /\ f.visible.s \in {"true", "false"}
       THEN Ok([visible |-> (f.visible.s = "true")])
  ELSE Throw("visible must be a boolean value when provided")

clearedCheck(f) ==
  IF IsNullish(f.cleared) THEN Ok(EmptyObject)
  ELSE IF (f.cleared.t = "boolean" /\ f.cleared.b)
          \/ (f.cleared.t = "string" /\ f.cleared.s = "true")
       THEN Ok([cleared |-> TRUE])
  ELSE IF (f.cleared.t = "boolean" /\ ~f.cleared.b)
          \/ (f.cleared.t = "string" /\ f.cleared.s = "false")
       THEN Ok(EmptyObject)
  ELSE Throw("cleared must be a boolean value when provided")

\* The six field rules in the source's order: the first that throws ends
\* the function, otherwise the result holds the fields they produced.
firstThrowOrResult(checks) ==
  LET bad == {i \in 1..6 : ~checks[i].ok} IN
  IF bad # {}
  THEN checks[CHOOSE i \in bad : \A j \in bad : i <= j]
  ELSE Ok(Spread(Spread(Spread(checks[1].value, checks[2].value),
                        Spread(checks[3].value, checks[4].value)),
                 Spread(checks[5].value, checks[6].value)))

fieldChecks(f) ==
  << modelPathCheck(f), scaleCheck(f), finiteCheck(f, "rotation"),
     finiteCheck(f, "elevation"), visibleCheck(f), clearedCheck(f) >>

normalizeOverrides(payload) ==
  IF payload.t # "object"
  THEN Throw("Override payload must be an object")
  ELSE firstThrowOrResult(fieldChecks(payload.fields))

(***************************************************************************)
(* Messages of the channel.  serialize is JSON.stringify: the client gets  *)
(* the type and the payload by value.                                      *)
(***************************************************************************)
ModelUpdate(o) == [type |-> "model-update", payload |-> o]
ErrorMessage(m) == [type |-> "error", message |-> m]
\* JSON.stringify: the text on the wire, told by the JSON value it encodes.
serialize(message) == [json |-> message]
\* What a client decodes from a text it received.
Decoded(text) == text.json

(***************************************************************************)
(* The environment of one handler run: env.clients is wss.clients in       *)
(* insertion order, env.readyState the state of each socket, env.fails the *)
(* sockets whose send() throws during this run.                            *)
(***************************************************************************)
NoSends == [sends |-> <<>>, threw |-> FALSE]

\* A plausible slip: no try/catch around socket.send.
safeSendUncaught(socket, data, env) ==
  [sends |-> << [to |-> socket, msg |-> data, ok |-> socket \notin env.fails] >>,
   threw |-> socket \in env.fails]

safeSend(socket, data, env) ==
  [sends |-> << [to |-> socket, msg |-> data, ok |-> socket \notin env.fails] >>,
   threw |-> FALSE]

\* One send s followed, unless it threw, by the sends of the rest of a loop.
thenSends(s, rest) ==
  IF s.threw THEN s
  ELSE [sends |-> s.sends \o rest.sends, threw |-> rest.threw]

RECURSIVE broadcastLoop(_, _, _)
broadcastLoop(message, i, env) ==
  IF i > Len(env.clients) THEN NoSends
  ELSE IF env.readyState[env.clients[i]] = "OPEN"
       THEN thenSends(safeSend(env.clients[i], message, env),
                      broadcastLoop(message, i + 1, env))
  ELSE broadcastLoop(message, i + 1, env)

\* A plausible slip: the loop left after its first client.
broadcastUpdateFirstClient(o, env) ==
  broadcastLoop(serialize(ModelUpdate(o)), 1,
                [env EXCEPT !.clients = IF @ = << >> THEN @ ELSE << @[1] >>])

broadcastUpdate(o, env) ==
  broadcastLoop(serialize(ModelUpdate(o)), 1, env)

isClearedOverride(value) ==
  IF value = NullOverride THEN FALSE
  ELSE IF Has(value, "cleared") /\ value.cleared = TRUE THEN TRUE
  ELSE /\ ~Has(value, "modelPath")
       /\ ~Has(value, "scale")
       /\ ~Has(value, "rotation")
       /\ ~Has(value, "elevation")
       /\ Has(value, "visible") /\ value.visible = FALSE

\* The result of a piece of handler code: the override it leaves, the send
\* calls it made in order, whether it threw (and with what message), and how
\* many times it called broadcastUpdate.
Effect(o, sends, threw, error, bcasts) ==
  [override |-> o, sends |-> sends, threw |-> threw, error |-> error,
   bcasts |-> bcasts]

SendError == "send failed"

\* `override = next; broadcastUpdate()`: the value stored and b, the outcome
\* of the broadcast of it.
storeAndBroadcast(next, b) ==
  Effect(next, b.sends, b.threw, IF b.threw THEN SendError ELSE "", 1)

\* A plausible slip: the canonical shape written without visible.
clearOverrideFlagOnly(o, env) ==
  IF isClearedOverride(o)
  THEN Effect(o, <<>>, FALSE, "", 0)
  ELSE storeAndBroadcast([cleared |-> TRUE],
                         broadcastUpdate([cleared |-> TRUE], env))

\* A plausible slip: the already-cleared short-circuit left out.
clearOverrideAlways(o, env) ==
  storeAndBroadcast(Cleared, broadcastUpdate(Cleared, env))

\* A plausible slip: the clear stored without the broadcast of it.
clearOverrideUnannounced(o, env) ==
  IF isClearedOverride(o)
  THEN Effect(o, <<>>, FALSE, "", 0)
  ELSE Effect(Cleared, <<>>, FALSE, "", 0)

clearOverride(o, env) ==
  IF isClearedOverride(o)
  THEN Effect(o, <<>>, FALSE, "", 0)
  ELSE storeAndBroadcast(Cleared, broadcastUpdate(Cleared, env))

(***************************************************************************)
(* The channel front-end: parseCommand and applyCommand.  The data of a    *)
(* message is a text that either fails JSON.parse or decodes to a value;   *)
(* a command object is [t |-> "object", type |-> ..., payload |-> ...].    *)
(***************************************************************************)
BadJson == [parses |-> FALSE, value |-> Undef]
Json(v) == [parses |-> TRUE, value |-> v]
Command(type, payload) == [t |-> "object", type |-> type, payload |-> payload]

JsonParse(text) ==
  IF text.parses THEN Ok(text.value) ELSE Throw("Unexpected token in JSON")

\* The 'set-model' command built from n = normalizeOverrides(payload.payload).
setModelCommand(n) ==
  IF n.ok THEN Ok([type |-> "set-model", payload |-> n.value]) ELSE n

\* parseCommand from the outcome of JSON.parse on.
commandOf(parsed) ==
  IF ~parsed.ok THEN parsed
  ELSE IF IsNullish(parsed.value) \/ parsed.value.t # "object"
       THEN Throw("Command payload must be an object")
  ELSE IF parsed.value.type = "set-model"
       THEN setModelCommand(normalizeOverrides(parsed.value.payload))
  ELSE IF parsed.value.type = "clear-model" THEN Ok([type |-> "clear-model"])
  ELSE IF parsed.value.type = "get-model" THEN Ok([type |-> "get-model"])
  ELSE Throw("Unsupported command type")

parseCommand(data) == commandOf(JsonParse(data))

\* override?.visible
previousVisible(o) == IF Has(o, "visible") THEN JBool(o.visible) ELSE Undef

\* A plausible slip: the cleared flag of the previous override survives the
\* merge.
dropClearedNever(nextOverride, overrides) == nextOverride

\* if (!('cleared' in overrides)) delete nextOverride.cleared
dropCleared(nextOverride, overrides) ==
  IF ~Has(overrides, "cleared") THEN Delete(nextOverride, "cleared")
  ELSE nextOverride

\* A plausible slip: the restore rule tests for an explicit visible instead
\* of its absence.
shouldRestoreVisibilityWsInverted(payload) ==
  /\ Has(payload, "modelPath")
  /\ payload.modelPath # "clear"
  /\ Has(payload, "visible")

shouldRestoreVisibilityWs(payload) ==
  /\ Has(payload, "modelPath")
  /\ payload.modelPath # "clear"
  /\ ~Has(payload, "visible")

\* A plausible slip: a stale explicit hide is carried through the merge.
nextOverrideWsNoStrip(o, payload) ==
  dropCleared(
    IF shouldRestoreVisibilityWs(payload)
    THEN Assign(Spread(OrEmpty(o), payload), "visible", TRUE)
    ELSE Spread(OrEmpty(o), payload),
    payload)

\* A plausible slip: the update replaces the override instead of being
\* merged over it.
nextOverrideWsReplace(o, payload) ==
  dropCleared(
    IF shouldRestoreVisibilityWs(payload)
    THEN Assign(payload, "visible", TRUE)
    ELSE payload,
    payload)

\* applyCommand 'set-model', from previousVisible to the value stored.
nextOverrideWs(o, payload) ==
  dropCleared(
    IF shouldRestoreVisibilityWs(payload)
    THEN Assign(Spread(OrEmpty(o), payload), "visible", TRUE)
    ELSE IF ~Has(payload, "visible") /\ previousVisible(o) = JBool(FALSE)
         THEN Delete(Spread(OrEmpty(o), payload), "visible")
    ELSE Spread(OrEmpty(o), payload),
    payload)

\* A plausible slip: broadcastUpdate called before the assignment to override.
applySetModelBroadcastFirst(payload, o, env) ==
  IF DOMAIN payload = {}
  THEN Effect(o, <<>>, TRUE, "set-model requires at least one field", 0)
  ELSE IF Has(payload, "modelPath") /\ payload.modelPath = "clear"
       THEN clearOverride(o, env)
  ELSE IF Has(payload, "cleared") /\ payload.cleared = TRUE
       THEN clearOverride(o, env)
  ELSE storeAndBroadcast(nextOverrideWs(o, payload), broadcastUpdate(o, env))

\* A plausible slip: the check for an empty update made after the merge was
\* stored and broadcast.
applySetModelLateCheck(payload, o, env) ==
  IF Has(payload, "modelPath") /\ payload.modelPath = "clear"
  THEN clearOverride(o, env)
  ELSE IF Has(payload, "cleared") /\ payload.cleared = TRUE
       THEN clearOverride(o, env)
  ELSE IF DOMAIN payload = {}
       THEN [storeAndBroadcast(nextOverrideWs(o, payload),
                               broadcastUpdate(nextOverrideWs(o, payload), env))
               EXCEPT !.threw = TRUE,
                      !.error = "set-model requires at least one field"]
  ELSE storeAndBroadcast(nextOverrideWs(o, payload),
                         broadcastUpdate(nextOverrideWs(o, payload), env))

\* applyCommand, case 'set-model'.
applySetModel(payload, o, env) ==
  IF DOMAIN payload = {}
  THEN Effect(o, <<>>, TRUE, "set-model requires at least one field", 0)
  ELSE IF Has(payload, "modelPath") /\ payload.modelPath = "clear"
       THEN clearOverride(o, env)
  ELSE IF Has(payload, "cleared") /\ payload.cleared = TRUE
       THEN clearOverride(o, env)
  ELSE storeAndBroadcast(nextOverrideWs(o, payload),
                         broadcastUpdate(nextOverrideWs(o, payload), env))

\* applyCommand, case 'get-model'.
\* A reply s sent to the requesting socket only.
replyEffect(o, s) ==
  Effect(o, s.sends, s.threw, IF s.threw THEN SendError ELSE "", 0)

\* A plausible slip: the reply made with broadcastUpdate.
applyGetModelBroadcast(socket, o, env) ==
  replyEffect(o, broadcastUpdate(o, env))

applyGetModel(socket, o, env) ==
  replyEffect(o, safeSend(socket, serialize(ModelUpdate(o)), env))

applyCommand(command, socket, o, env) ==
  IF command.type = "set-model" THEN applySetModel(command.payload, o, env)
  ELSE IF command.type = "clear-model" THEN clearOverride(o, env)
  ELSE IF command.type = "get-model" THEN applyGetModel(socket, o, env)
  ELSE Effect(o, <<>>, TRUE, "Unhandled command", 0)

\* socket.on('message'): the try block, then the catch that reports to the
\* sender.  uncaught is set when the catch block itself throws.
\* A plausible slip: a catch block that logs and sends nothing.
caughtSilently(a, s) ==
  [override |-> a.override, sends |-> a.sends,
   bcasts |-> a.bcasts, error |-> a.error, uncaught |-> FALSE]

\* The catch block: a is what the try block did before it threw a.error, s
\* the send of the error message to the sender.
caught(a, s) ==
  [override |-> a.override, sends |-> a.sends \o s.sends,
   bcasts |-> a.bcasts, error |-> a.error, uncaught |-> s.threw]

\* The try block ran applyCommand with effect a.
applied(a, socket, env) ==
  IF a.threw
  THEN caught(a, safeSend(socket, serialize(ErrorMessage(a.error)), env))
  ELSE [override |-> a.override, sends |-> a.sends, bcasts |-> a.bcasts,
        error |-> "", uncaught |-> FALSE]

\* A plausible slip: the error of a message that does not parse sent to every
\* client.
dispatchErrorToAll(command, socket, o, env) ==
  IF ~command.ok
  THEN caught(Effect(o, <<>>, TRUE, command.error, 0),
              broadcastLoop(serialize(ErrorMessage(command.error)), 1, env))
  ELSE applied(applyCommand(command.value, socket, o, env), socket, env)

\* The handler from the outcome of parseCommand on.
dispatch(command, socket, o, env) ==
  IF ~command.ok
  THEN caught(Effect(o, <<>>, TRUE, command.error, 0),
              safeSend(socket, serialize(ErrorMessage(command.error)), env))
  ELSE applied(applyCommand(command.value, socket, o, env), socket, env)

onMessage(socket, data, o, env) ==
  dispatch(parseCommand(data), socket, o, env)

\* A plausible slip: the greeting built from the initial override.
onConnectionInitial(socket, o, env) ==
  safeSend(socket, serialize(ModelUpdate(NullOverride)), env)

\* wss.on('connection'): the push of the current override.
onConnection(socket, o, env) ==
  safeSend(socket, serialize(ModelUpdate(o)), env)

(***************************************************************************)
(* The HTTP front-end.  A request is [url, method, body]; url is "null"    *)
(* when request.url is missing.                                            *)
(***************************************************************************)
WS_PATH == "/replacement-model"

\* parseRequestUrl(url).pathname on the urls the model uses.
Pathname(url) ==
  CASE url = "/replacement-model?source=ui" -> "/replacement-model"
    [] OTHER -> url

Request(url, method, body) == [url |-> url, method |-> method, body |-> body]

HttpEffect(o, sends, bcasts, status, error) ==
  [override |-> o, sends |-> sends, bcasts |-> bcasts, status |-> status,
   error |-> error]

\* A plausible slip: the HTTP front-end without the restore rule.
shouldRestoreVisibilityHttpNever(overrides) == FALSE

shouldRestoreVisibilityHttp(overrides) ==
  /\ Has(overrides, "modelPath")
  /\ overrides.modelPath # "clear"
  /\ ~Has(overrides, "visible")

\* A plausible slip: the transient cleared flag is not dropped after a merge.
nextOverrideHttpKeepsCleared(o, overrides) ==
  IF shouldRestoreVisibilityHttp(overrides)
  THEN Assign(Spread(OrEmpty(o), overrides), "visible", TRUE)
  ELSE IF ~Has(overrides, "visible") /\ previousVisible(o) = JBool(FALSE)
       THEN Delete(Spread(OrEmpty(o), overrides), "visible")
  ELSE Spread(OrEmpty(o), overrides)

\* handleOverrideRequest POST, from previousVisible to the value stored.
nextOverrideHttp(o, overrides) ==
  dropCleared(
    IF shouldRestoreVisibilityHttp(overrides)
    THEN Assign(Spread(OrEmpty(o), overrides), "visible", TRUE)
    ELSE IF ~Has(overrides, "visible") /\ previousVisible(o) = JBool(FALSE)
         THEN Delete(Spread(OrEmpty(o), overrides), "visible")
    ELSE Spread(OrEmpty(o), overrides),
    overrides)

\* The response after effect e of a state change: 204, or the status of the
\* catch block that an exception thrown by e reaches.
respondAfter(e, catchStatus) ==
  IF e.threw
  THEN HttpEffect(e.override, e.sends, e.bcasts, catchStatus, e.error)
  ELSE HttpEffect(e.override, e.sends, e.bcasts, 204, "")

\* A plausible slip: the POST branch without its check for an empty update.
postOverridesNoEmptyCheck(overrides, o, env) ==
  IF \/ (Has(overrides, "modelPath") /\ overrides.modelPath = "clear")
     \/ (Has(overrides, "cleared") /\ overrides.cleared = TRUE)
  THEN respondAfter(clearOverride(o, env), 400)
  ELSE respondAfter(
         storeAndBroadcast(nextOverrideHttp(o, overrides),
                           broadcastUpdate(nextOverrideHttp(o, overrides), env)),
         400)

\* The POST branch from the normalized overrides on.
postOverrides(overrides, o, env) ==
  IF \/ (Has(overrides, "modelPath") /\ overrides.modelPath = "clear")
     \/ (Has(overrides, "cleared") /\ overrides.cleared = TRUE)
  THEN respondAfter(clearOverride(o, env), 400)
  ELSE IF DOMAIN overrides = {}
       THEN HttpEffect(o, <<>>, 0, 400,
                       "At least one override field must be provided")
  ELSE respondAfter(
         storeAndBroadcast(nextOverrideHttp(o, overrides),
                           broadcastUpdate(nextOverrideHttp(o, overrides), env)),
         400)

\* The POST branch from the outcome n of normalizeOverrides on.
postNormalized(n, o, env) ==
  IF ~n.ok THEN HttpEffect(o, <<>>, 0, 400, n.error)
  ELSE postOverrides(n.value, o, env)

\* The POST branch from the outcome of JSON.parse(body) on.
postParsed(commandPayload, o, env) ==
  IF ~commandPayload.ok THEN HttpEffect(o, <<>>, 0, 400, "Invalid JSON body")
  ELSE postNormalized(normalizeOverrides(commandPayload.value), o, env)

\* The POST branch once readBody has returned the body.
handleOverridePost(body, o, env) == postParsed(JsonParse(body), o, env)

\* An exception that leaves handleHttpRequest is answered 500 by the
\* createServer callback.
handleOverrideRequest(request, o, env) ==
  IF request.method = "GET" THEN HttpEffect(o, <<>>, 0, 200, "")
  ELSE IF request.method = "DELETE"
       THEN respondAfter(clearOverride(o, env), 500)
  ELSE IF request.method = "POST" THEN handleOverridePost(request.body, o, env)
  ELSE HttpEffect(o, <<>>, 0, 405, "Unsupported method")

(***************************************************************************)
(* Slider submissions.  A payload is an object with the eight fields that  *)
(* normalizeSliderSubmission reads; a submission is a function from the    *)
(* names of the fields it has to their values; a row is what the insert    *)
(* statement of persistSubmission writes.                                  *)
(***************************************************************************)
SLIDER_PATH == "/replacement-model/slider-values"

JSlider(sessionId, questionId, questionText, question, value, recordedAt, submittedAt) ==
  [t |-> "object",
   fields |-> [sessionId |-> sessionId, questionId |-> questionId,
               questionText |-> questionText, question |-> question,
               prompt |-> Undef, value |-> value, recordedAt |-> recordedAt,
               submittedAt |-> submittedAt]]

\* new Date(string).valueOf() on the strings the model uses.
DateParse(s) ==
  CASE s = "1970-01-01T00:00:01Z" -> JNum(1000)
    [] s = "1970-01-01T00:00:02Z" -> JNum(2000)
    [] OTHER -> JNaN

\* new Date(value).valueOf(): a number is taken as milliseconds.
DateValue(value) ==
  IF value.t = "string" THEN DateParse(value.s)
  ELSE IF IsFinite(value) THEN value ELSE JNaN

JDate(ms) == [t |-> "date", ms |-> ms]

\* normalizeDate from candidate.valueOf() on.
validDate(valueOf) ==
  IF valueOf.k # "NaN" THEN Ok(JDate(valueOf.n))
  ELSE Throw("recordedAt/submittedAt must be a valid date or timestamp")

normalizeDate(value) ==
  IF value.t \in {"number", "string"} THEN validDate(DateValue(value))
  ELSE Throw("recordedAt/submittedAt must be a valid date or timestamp")

sessionIdCheck(f) ==
  IF f.sessionId.t # "string" \/ Trim(f.sessionId.s) = ""
  THEN Throw("sessionId must be a non-empty string")
  ELSE Ok([sessionId |-> Trim(f.sessionId.s)])

questionIdCheck(f) ==
  IF f.questionId.t # "string" \/ Trim(f.questionId.s) = ""
  THEN Throw("questionId must be a non-empty string")
  ELSE Ok([questionId |-> Trim(f.questionId.s)])

\* value: coerceNumber(value), as a field of the submission.
coercedValue(numeric) ==
  IF numeric.ok THEN Ok([value |-> numeric.value]) ELSE numeric

valueCheck(f) ==
  IF IsNullish(f.value) THEN Throw("value must be provided")
  ELSE coercedValue(coerceNumber(f.value))

\* questionText ?? question ?? prompt
questionLabel(f) ==
  IF ~IsNullish(f.questionText) THEN f.questionText
  ELSE IF ~IsNullish(f.question) THEN f.question
  ELSE f.prompt

questionTextCheck(label) ==
  IF IsNullish(label) THEN Ok(EmptyObject)
  ELSE IF label.t # "string" \/ Trim(label.s) = ""
       THEN Throw("questionText must be a non-empty string when provided")
  ELSE Ok([questionText |-> label.s])

\* submittedAt ?? recordedAt
timestampCandidate(f) ==
  IF ~IsNullish(f.submittedAt) THEN f.submittedAt ELSE f.recordedAt

\* submission.recordedAt = normalizeDate(timestampCandidate)
recordedAtField(date) ==
  IF date.ok THEN Ok([recordedAt |-> date.value]) ELSE date

recordedAtCheck(candidate) ==
  IF IsNullish(candidate) THEN Ok(EmptyObject)
  ELSE recordedAtField(normalizeDate(candidate))

\* The five steps in the source's order: the first that throws ends the
\* function, otherwise the submission holds the fields they produced.
firstThrowOrSubmission(checks) ==
  LET bad == {i \in 1..5 : ~checks[i].ok} IN
  IF bad # {}
  THEN checks[CHOOSE i \in bad : \A j \in bad : i <= j]
  ELSE Ok(Spread(Spread(Spread(checks[1].value, checks[2].value),
                        Spread(checks[3].value, checks[4].value)),
                 checks[5].value))

submissionChecks(f) ==
  << sessionIdCheck(f), questionIdCheck(f), valueCheck(f),
     questionTextCheck(questionLabel(f)),
     recordedAtCheck(timestampCandidate(f)) >>

normalizeSliderSubmission(payload) ==
  IF payload.t # "object"
  THEN Throw("Slider submission payload must be an object")
  ELSE firstThrowOrSubmission(submissionChecks(payload.fields))

\* The row of the insert statement: question_text is null when absent and
\* recorded_at is coalesce($5, now()).
Row(submission) ==
  [session_id |-> submission.sessionId,
   question_id |-> submission.questionId,
   question_text |-> IF Has(submission, "questionText")
                     THEN JStr(submission.questionText) ELSE JNull,
   value |-> submission.value.n,
   recorded_at |-> IF Has(submission, "recordedAt")
                   THEN submission.recordedAt ELSE [t |-> "now"]]

\* persistSubmission on a pool in state pool ("open" or "ended");
\* queryFails tells whether pool.query rejects this insert.
persistSubmission(pool, submission, queryFails) ==
  IF ~IsFinite(submission.value)
  THEN Throw("Slider submission value must be a finite number.")
  ELSE IF pool = "ended"
       THEN Throw("Cannot use a pool after calling end on the pool")
  ELSE IF queryFails THEN Throw("insert failed")
  ELSE Ok(Row(submission))

\* The outcome of a slider request: an HttpEffect with the rows inserted and
\* the number of calls of createSliderRepository the handler made.
SliderEffect(o, status, error, inserted) ==
  [override |-> o, sends |-> <<>>, bcasts |-> 0, status |-> status,
   error |-> error, inserted |-> inserted, opens |-> 0]

\* A plausible slip: the response does not wait for the outcome of the
\* insert.
sliderSavedUnawaited(saved, o) ==
  IF ~saved.ok THEN SliderEffect(o, 202, "", <<>>)
  ELSE SliderEffect(o, 202, "", << saved.value >>)

\* handleSliderSubmission from the outcome of saveSliderSubmission on.
sliderSaved(saved, o) ==
  IF ~saved.ok THEN SliderEffect(o, 500, saved.error, <<>>)
  ELSE SliderEffect(o, 202, "", << saved.value >>)

\* A plausible slip: the repository is used without the test for null, and
\* the call on null throws into the catch block of the save.
sliderNormalizedUnguarded(submission, o, env) ==
  IF ~submission.ok THEN SliderEffect(o, 400, submission.error, <<>>)
  ELSE IF env.sliderRepository = "null"
       THEN SliderEffect(o, 500, "Cannot read properties of null", <<>>)
  ELSE sliderSaved(persistSubmission(env.sliderRepository, submission.value,
                                     env.queryFails), o)

\* handleSliderSubmission from the outcome of normalizeSliderSubmission on.
sliderNormalized(submission, o, env) ==
  IF ~submission.ok THEN SliderEffect(o, 400, submission.error, <<>>)
  ELSE IF env.sliderRepository = "null"
       THEN SliderEffect(o, 503, "Slider submission storage not configured",
                         <<>>)
  ELSE sliderSaved(persistSubmission(env.sliderRepository, submission.value,
                                     env.queryFails), o)

\* handleSliderSubmission from the outcome of JSON.parse(body) on.
sliderParsed(payload, o, env) ==
  IF ~payload.ok THEN SliderEffect(o, 400, "Invalid JSON body", <<>>)
  ELSE sliderNormalized(normalizeSliderSubmission(payload.value), o, env)

handleSliderSubmission(request, o, env) ==
  IF request.method # "POST"
  THEN SliderEffect(o, 405, "Unsupported method", <<>>)
  ELSE sliderParsed(JsonParse(request.body), o, env)

\* new URL(input, 'http://localhost'): throws on a target with an empty
\* host; otherwise the pathname is the target without its query.
parseRequestUrl(input) ==
  IF input = "//" THEN Throw("Invalid URL")
  ELSE Ok([pathname |-> Pathname(input)])

\* handleHttpRequest from the parsed url on; what parseRequestUrl throws
\* leaves the handler and is answered 500 by the createServer callback.
routed(url, request, o, env) ==
  IF ~url.ok THEN HttpEffect(o, <<>>, 0, 500, url.error)
  ELSE IF url.value.pathname = WS_PATH
       THEN handleOverrideRequest(request, o, env)
  ELSE IF url.value.pathname = SLIDER_PATH
       THEN handleSliderSubmission(request, o, env)
  ELSE HttpEffect(o, <<>>, 0, 404, "Not found")

handleHttpRequest(request, o, env) ==
  IF request.url = "null" THEN HttpEffect(o, <<>>, 0, 404, "Not found")
  ELSE IF request.method = "OPTIONS" THEN HttpEffect(o, <<>>, 0, 204, "")
  ELSE routed(parseRequestUrl(request.url), request, o, env)

\* The handler suspends at `await readBody(request)` exactly on this route.
awaitsBody(request) ==
  /\ request.url # "null"
  /\ request.method = "POST"
  /\ Pathname(request.url) = WS_PATH

\* handleSliderSubmission suspends at `await readBody(request)`.
awaitsSliderBody(request) ==
  /\ request.url # "null"
  /\ request.method = "POST"
  /\ Pathname(request.url) = SLIDER_PATH

(***************************************************************************)
(* Inputs: the payloads, message data and requests the clients send.       *)
(***************************************************************************)
PathA == JObj(JStr("a"), Undef, Undef, Undef, Undef, Undef)
PathBHidden == JObj(JStr("b"), Undef, Undef, Undef, JBool(FALSE), Undef)
ScaleOnly == JObj(Undef, JStr("2"), Undef, Undef, Undef, Undef)
HideOnly == JObj(Undef, Undef, Undef, Undef, JBool(FALSE), Undef)
ShowOnly == JObj(Undef, Undef, Undef, Undef, JStr("true"), Undef)
ClearPath == JObj(JStr("clear"), JNum(2), Undef, Undef, Undef, Undef)
PathAndCleared == JObj(JStr("a"), Undef, Undef, Undef, Undef, JBool(TRUE))
RotationAndCleared == JObj(Undef, Undef, JNum(30), Undef, Undef, JStr("true"))
NoFields == JObj(Undef, Undef, Undef, Undef, Undef, JBool(FALSE))
BadScale == JObj(JStr("a"), JNum(0), Undef, Undef, Undef, Undef)
ClearOnly == JObj(JStr("clear"), Undef, Undef, Undef, Undef, Undef)
EmptyPayload == JObj(Undef, Undef, Undef, Undef, Undef, Undef)
BlankPath == JObj(JStr(" "), Undef, Undef, Undef, Undef, Undef)
InfiniteScale == JObj(JStr("a"), JInf, Undef, Undef, Undef, Undef)
InfiniteRotation == JObj(Undef, Undef, JStr("Infinity"), Undef, Undef, Undef)
BadElevation == JObj(Undef, Undef, Undef, JStr("high"), Undef, Undef)
BadVisible == JObj(JStr("a"), Undef, Undef, Undef, JStr("yes"), Undef)
BadCleared == JObj(Undef, Undef, Undef, Undef, Undef, JNum(5))

\* The payloads that normalizeOverrides refuses, one for each of its rules.
InvalidPayloads ==
  { BadScale, BlankPath, InfiniteScale, InfiniteRotation, BadElevation,
    BadVisible, BadCleared, JNull }

Payloads ==
  { PathA, PathBHidden, ScaleOnly, HideOnly, ShowOnly, ClearPath,
    PathAndCleared, RotationAndCleared, NoFields, ClearOnly, EmptyPayload }
    \cup InvalidPayloads

SyncRequests ==
  { Request("null", "GET", BadJson),
    Request(WS_PATH, "GET", BadJson),
    Request(WS_PATH, "DELETE", BadJson),
    Request("/replacement-model?source=ui", "DELETE", BadJson),
    Request(WS_PATH, "OPTIONS", BadJson),
    Request(WS_PATH, "PUT", BadJson),
    Request("/other", "POST", BadJson),
    Request("//", "GET", BadJson),
    Request(SLIDER_PATH, "GET", BadJson) }

Bodies == {BadJson} \cup {Json(p) : p \in Payloads}

MessageData ==
  {BadJson, Json(JNum(5))}
    \cup {Json(Command("set-model", p)) : p \in Payloads}
    \cup {Json(Command(t, Undef)) : t \in {"clear-model", "get-model", "ping"}}

PostUrls == {WS_PATH, "/replacement-model?source=ui"}

(***************************************************************************)
(* The state of the server process.                                        *)
(*   override      the closure variable `override`                         *)
(*   clients       wss.clients, in insertion order                         *)
(*   readyState    the readyState of each socket ("NEW" before it connects)*)
(*   outbox        per connection, the send calls made on its socket       *)
(*   pending       the POST handlers suspended in readBody: the body each  *)
(*                 will read and the override as it was on arrival         *)
(*                 (the handler reads nothing else of its request later)   *)
(*   last          the most recent handler run: its input, the override    *)
(*                 before and after it, and what it sent and answered;     *)
(*                 seq counts the events so far                            *)
(*   prev          the event before last                                   *)
(*   connOverride  per connection, the override when it connected          *)
(*   stored        the override values stored so far, in order             *)
(*   heard         per connection, the send calls broadcasts made on it    *)
(*   joined        per connection, Len(stored) when it connected           *)
(* and of the process around it:                                           *)
(*   boot          where the top level of startReplacementModelServer.ts   *)
(*                 is: "creating" (awaiting createSliderRepository),       *)
(*                 "delaying" (awaiting the retry delay), "returned"       *)
(*                 (initializeSliderRepository has returned), "started"    *)
(*                 (the server is started), "exited" (process.exit)        *)
(*   attempt, maxAttempts   the locals of initializeSliderRepository       *)
(*   createCalls   the calls of createSliderRepository made so far         *)
(*   sliderRepository  "null", or the state of the pool of the repository: *)
(*                 "open" or "ended"                                       *)
(*   rows          the table slider_responses, in insertion order          *)
(*   sliderPending the bodies of the slider requests suspended in readBody *)
(*   wssState      the state of the WebSocketServer                        *)
(*   httpState     "listening", "closing" (httpServer.close called, some   *)
(*                 connection not yet ended) or "closed"                   *)
(*   signals       the signals whose once-handler has not run yet          *)
(*   closing       per signal, where the close() its handler called is     *)
(*   teardown      the steps the close() calls have taken, in order        *)
(*   delayMs       the delay of the pending retry timer, 0 without one     *)
(*   pools         the pools created by `new Pool` and not ended           *)
(*   configured    whether DATABASE_URL holds a connection string          *)
(*   activeInstance  the module variable: 0 for null, or an instance       *)
(*   instance      the number of instances created; the state above is     *)
(*                 that of the newest one                                  *)
(*   startCall     the last call of startReplacementModelServer: its       *)
(*                 number, the instance it returned and whether it         *)
(*                 created that instance                                   *)
(*   retired       the earlier instances whose channel server had closed   *)
(*                 when the next instance was created                      *)
(***************************************************************************)
VARIABLES override, clients, readyState, outbox, pending, last, prev,
          connOverride, stored, heard, joined,
          boot, attempt, maxAttempts, createCalls, sliderRepository, rows,
          sliderPending, wssState, httpState, signals, closing, teardown,
          delayMs, pools, configured, activeInstance, instance, startCall,
          retired

Signals == {"SIGINT", "SIGTERM"}

\* The local state of initializeSliderRepository.
startup == << attempt, maxAttempts, createCalls >>

\* What the startup holds besides: its timer and the pools it created.
resources == << delayMs, pools, configured >>

\* The guard of startReplacementModelServer.
instances == << activeInstance, instance, startCall, retired >>

\* The state of the shutdown.
shutdownState == << wssState, httpState, signals, closing, teardown >>

\* The state of the process around the override and its clients.
lifecycle ==
  << boot, attempt, maxAttempts, createCalls, sliderRepository, rows,
     sliderPending, wssState, httpState, signals, closing, teardown,
     delayMs, pools, configured, activeInstance, instance, startCall,
     retired >>

\* The record of the broadcasts.
history == << stored, heard, joined >>

vars ==
  << override, clients, readyState, outbox, pending, last, prev, connOverride,
     stored, heard, joined,
     boot, attempt, maxAttempts, createCalls, sliderRepository, rows,
     sliderPending, wssState, httpState, signals, closing, teardown,
     delayMs, pools, configured, activeInstance, instance, startCall,
     retired >>

OpenConns == {c \in Conns : readyState[c] = "OPEN"}

\* The sockets whose send() may throw during one handler run.
FailSets == {f \in SUBSET OpenConns : Cardinality(f) <= MaxFails}

Env(fails) ==
  [clients |-> clients, readyState |-> readyState, fails |-> fails,
   sliderRepository |-> sliderRepository, queryFails |-> FALSE]

\* The HTTP listener hands requests to the handler: it is started and has
\* not finished closing (a connection kept alive can still carry a request
\* after httpServer.close was called).
Serving == boot = "started" /\ httpState \in {"listening", "closing"}

\* The channel server accepts a handshake.
Accepting ==
  boot = "started" /\ httpState = "listening" /\ wssState = "RUNNING"

SendsTo(sends, c) ==
  LET ToC(x) == x.to = c IN SelectSeq(sends, ToC)

\* The messages a connection has received: the send calls that did not throw.
Inbox(c) ==
  LET Sent(x) == x.ok IN SelectSeq(outbox[c], Sent)

Run(kind, conn, input, pre, post, sends, bcasts, status, error, uncaught) ==
  [seq |-> last.seq + 1, kind |-> kind, conn |-> conn, input |-> input,
   pre |-> pre, post |-> post, sends |-> sends, bcasts |-> bcasts,
   status |-> status, error |-> error, uncaught |-> uncaught,
   open |-> OpenConns]

NoRun ==
  [seq |-> 0, kind |-> "init", conn |-> 0, input |-> Undef,
   pre |-> NullOverride, post |-> NullOverride, sends |-> <<>>,
   bcasts |-> 0, status |-> 0, error |-> "", uncaught |-> FALSE, open |-> {}]

\* An event that runs no handler code of the server.
Quiet(kind, conn) ==
  Run(kind, conn, Undef, override, override, <<>>, 0, 0, "", FALSE)

\* A handler run with outcome r: the override it stored, the sends it made.
Finish(kind, conn, input, r, status, uncaught) ==
  /\ override' = r.override
  /\ outbox' = [d \in Conns |-> outbox[d] \o SendsTo(r.sends, d)]
  /\ last' = Run(kind, conn, input, override, r.override, r.sends, r.bcasts,
                 status, r.error, uncaught)
  /\ prev' = last
  /\ stored' = IF r.bcasts = 1 THEN Append(stored, r.override) ELSE stored
  /\ heard' = [d \in Conns |->
                IF r.bcasts = 1 THEN heard[d] \o SendsTo(r.sends, d)
                ELSE heard[d]]
  /\ joined' = joined

\* No client has connected and no request has arrived.
NoTraffic ==
  /\ override = NullOverride
  /\ clients = <<>>
  /\ readyState = [c \in Conns |-> "NEW"]
  /\ outbox = [c \in Conns |-> <<>>]
  /\ pending = <<>>
  /\ connOverride = [c \in Conns |-> NullOverride]
  /\ last = NoRun
  /\ prev = NoRun
  /\ stored = <<>>
  /\ heard = [c \in Conns |-> <<>>]
  /\ joined = [c \in Conns |-> 0]
  /\ rows = <<>>
  /\ sliderPending = <<>>
  /\ wssState = "RUNNING"
  /\ httpState = "listening"
  /\ signals = Signals
  /\ closing = [s \in Signals |-> "idle"]
  /\ teardown = <<>>
  /\ delayMs = 0

\* The n-th call of startReplacementModelServer: the instance it returned
\* and whether the call created it.
Started(n, returned, created) ==
  [n |-> n, returned |-> returned, created |-> created]

\* The state after startReplacementModelServer() was called without a
\* repository.
Init ==
  /\ NoTraffic
  /\ boot = "started"
  /\ attempt = 0
  /\ maxAttempts = 0
  /\ createCalls = 0
  /\ sliderRepository = "null"
  /\ pools = 0
  /\ configured = FALSE
  /\ activeInstance = 1
  /\ instance = 1
  /\ startCall = Started(1, 1, TRUE)
  /\ retired = {}

\* The 'connection' callback made the send s on the new socket c.
Greet(c, s) ==
  /\ outbox' = [d \in Conns |-> outbox[d] \o SendsTo(s.sends, d)]
  /\ last' = [Run("connection", c, Undef, override, override, s.sends,
                  0, 0, "", s.threw)
                EXCEPT !.open = OpenConns \cup {c}]

\* A client completes the WebSocket handshake: wss emits 'connection'.
Connect(c) ==
  /\ last.seq < MaxOps
  /\ Accepting
  /\ readyState[c] = "NEW"
  /\ \A d \in Conns : d < c => readyState[d] # "NEW"
  /\ clients' = Append(clients, c)
  /\ readyState' = [readyState EXCEPT ![c] = "OPEN"]
  /\ connOverride' = [connOverride EXCEPT ![c] = override]
  /\ joined' = [joined EXCEPT ![c] = Len(stored)]
  /\ \E fails \in SUBSET {c} :
       Greet(c, onConnection(c, override,
                             [clients |-> clients', readyState |-> readyState',
                              fails |-> fails]))
  /\ prev' = last
  /\ UNCHANGED << override, pending, stored, heard >>
  /\ UNCHANGED lifecycle

FinishMessage(c, data, r) == Finish("message", c, data, r, 0, r.uncaught)

FinishHttp(request, r) == Finish("http", 0, request, r, r.status, FALSE)

\* A message arrives on an open socket.
Message(c, data) ==
  /\ last.seq < MaxOps
  /\ boot = "started"
  /\ readyState[c] = "OPEN"
  /\ \E fails \in FailSets :
       FinishMessage(c, data, onMessage(c, data, override, Env(fails)))
  /\ UNCHANGED << clients, readyState, pending, connOverride >>
  /\ UNCHANGED lifecycle

\* An HTTP request whose handler runs to its response without suspending.
HttpRequest(request) ==
  /\ last.seq < MaxOps
  /\ Serving
  /\ ~awaitsBody(request)
  /\ ~awaitsSliderBody(request)
  /\ \E fails \in FailSets :
       FinishHttp(request, handleHttpRequest(request, override, Env(fails)))
  /\ UNCHANGED << clients, readyState, pending, connOverride >>
  /\ UNCHANGED lifecycle

\* A handler suspended in readBody, and the override at that time.
Suspended(body, o) == [body |-> body, seen |-> o]

\* A plausible slip: the handler merges over a copy of the override that it
\* took before it awaited the body.
mergeBaseAtArrival(current, seen) == seen

\* The override that the code after `await readBody` reads: the closure
\* variable as it is when the handler resumes.
mergeBase(current, seen) == current

\* A POST to the base path arrives: the handler suspends in readBody.
HttpPostArrive(request) ==
  /\ last.seq < MaxOps
  /\ Serving
  /\ awaitsBody(request)
  /\ Len(pending) < MaxPending
  /\ pending' = Append(pending, Suspended(request.body, override))
  /\ last' = Quiet("http-arrive", 0)
  /\ prev' = last
  /\ UNCHANGED << override, clients, readyState, outbox, connOverride >>
  /\ UNCHANGED history
  /\ UNCHANGED lifecycle

\* readBody returns: the rest of the POST handler runs to its response.
HttpPostResume(i) ==
  /\ last.seq < MaxOps
  /\ boot = "started"
  /\ i \in 1..Len(pending)
  /\ \E fails \in FailSets :
       FinishHttp(Request(WS_PATH, "POST", pending[i].body),
                  handleHttpRequest(Request(WS_PATH, "POST", pending[i].body),
                                    mergeBase(override, pending[i].seen),
                                    Env(fails)))
  /\ pending' = [j \in 1..(Len(pending) - 1) |->
                   IF j < i THEN pending[j] ELSE pending[j + 1]]
  /\ UNCHANGED << clients, readyState, connOverride >>
  /\ UNCHANGED lifecycle

\* A socket starts its closing handshake; it stays in wss.clients.
BeginClose(c) ==
  /\ last.seq < MaxOps
  /\ boot = "started"
  /\ readyState[c] = "OPEN"
  /\ readyState' = [readyState EXCEPT ![c] = "CLOSING"]
  /\ last' = [Quiet("socket-closing", c) EXCEPT !.open = OpenConns \ {c}]
  /\ prev' = last
  /\ UNCHANGED << override, clients, outbox, pending, connOverride >>
  /\ UNCHANGED history
  /\ UNCHANGED lifecycle

\* The socket's 'close' event: ws removes it from wss.clients.
SocketClosed(c) ==
  /\ last.seq < MaxOps
  /\ boot = "started"
  /\ readyState[c] = "CLOSING"
  /\ readyState' = [readyState EXCEPT ![c] = "CLOSED"]
  /\ clients' = LET Other(d) == d # c IN SelectSeq(clients, Other)
  /\ last' = Quiet("socket-closed", c)
  /\ prev' = last
  /\ UNCHANGED << override, outbox, pending, connOverride >>
  /\ UNCHANGED history
  /\ UNCHANGED lifecycle

(***************************************************************************)
(* Slider submissions: the handler suspends in readBody, then runs to its  *)
(* response; the insert it awaits is taken with the run.                   *)
(***************************************************************************)
ValidSlider ==
  JSlider(JStr(" a "), JStr("q"), Undef, JStr("Why?"), JNum(2), Undef,
          JStr("1970-01-01T00:00:01Z"))
StringValueSlider ==
  JSlider(JStr("a"), JStr("q"), Undef, Undef, JStr("30"), Undef, Undef)
InfiniteStringSlider ==
  JSlider(JStr("a"), JStr("q"), Undef, Undef, JStr("Infinity"), Undef, Undef)
\* JSON.parse of a number such as 1e999 gives Infinity.
InfiniteNumberSlider ==
  JSlider(JStr("a"), JStr("q"), Undef, Undef, JInf, Undef, Undef)
BadValueSlider ==
  JSlider(JStr("a"), JStr("q"), Undef, Undef, JStr("high"), Undef, Undef)
NoSessionSlider ==
  JSlider(Undef, JStr("q"), Undef, Undef, JNum(2), Undef, Undef)
BadDateSlider ==
  JSlider(JStr("a"), JStr("q"), Undef, Undef, JNum(2), JStr("soon"), Undef)

\* The payloads whose value is present and is not a finite number.
NonFiniteSliders == {InfiniteStringSlider, InfiniteNumberSlider}

SliderPayloads ==
  { ValidSlider, StringValueSlider, BadValueSlider, NoSessionSlider,
    BadDateSlider } \cup NonFiniteSliders

SliderBodies == {BadJson} \cup {Json(p) : p \in SliderPayloads}

\* A POST to the slider path arrives: the handler suspends in readBody.
SliderPostArrive(body) ==
  /\ last.seq < MaxOps
  /\ Serving
  /\ Len(sliderPending) < MaxPending
  /\ sliderPending' = Append(sliderPending, body)
  /\ last' = Quiet("slider-arrive", 0)
  /\ prev' = last
  /\ UNCHANGED << override, clients, readyState, outbox, pending,
                  connOverride, boot, sliderRepository, rows >>
  /\ UNCHANGED << history, startup, shutdownState, resources, instances >>

\* The run of the slider handler with outcome r.
FinishSlider(request, r) ==
  /\ Finish("slider", 0, request, r, r.status, FALSE)
  /\ rows' = rows \o r.inserted
  /\ createCalls' = createCalls + r.opens

\* readBody returns: the slider handler runs to its response; queryFails
\* tells whether the insert is refused by the database.
SliderPostResume(i, queryFails) ==
  /\ last.seq < MaxOps
  /\ boot = "started"
  /\ i \in 1..Len(sliderPending)
  /\ FinishSlider(Request(SLIDER_PATH, "POST", sliderPending[i]),
                  handleHttpRequest(
                    Request(SLIDER_PATH, "POST", sliderPending[i]), override,
                    [Env({}) EXCEPT !.queryFails = queryFails]))
  /\ sliderPending' = [j \in 1..(Len(sliderPending) - 1) |->
                         IF j < i THEN sliderPending[j]
                         ELSE sliderPending[j + 1]]
  /\ UNCHANGED << clients, readyState, pending, connOverride, boot,
                  sliderRepository, attempt, maxAttempts >>
  /\ UNCHANGED << shutdownState, resources, instances >>

(***************************************************************************)
(* Startup: the top level of startReplacementModelServer.ts, which awaits  *)
(* initializeSliderRepository and then starts the server.                  *)
(***************************************************************************)
\* A plausible slip: the loop test is strict.
loopContinuesStrict(a, m) == a < m

\* for (...; attempt <= maxAttempts; ...)
loopContinues(a, m) == a <= m

\* baseDelayMs when SLIDER_STORAGE_RETRY_DELAY_MS is not set.
BaseDelayMs == 1000

\* A plausible slip: every retry waits the base delay.
retryDelayConstant(baseDelayMs, a) == baseDelayMs

\* const delayMs = baseDelayMs * attempt
retryDelay(baseDelayMs, a) == baseDelayMs * a

\* if (attempt < maxAttempts): wait and try again.
retries(a, m) == a < m

\* The loop test passes: createSliderRepository is called.
CallCreate ==
  /\ boot = "loop"
  /\ loopContinues(attempt, maxAttempts)
  /\ boot' = "creating"
  /\ createCalls' = createCalls + 1
  /\ pools' = IF configured THEN pools + 1 ELSE pools
  /\ UNCHANGED << delayMs, configured, instances >>
  /\ UNCHANGED << override, clients, readyState, outbox, pending, last, prev,
                  connOverride, attempt, maxAttempts, sliderRepository, rows,
                  sliderPending >>
  /\ UNCHANGED << history, shutdownState >>

\* The loop test fails: initializeSliderRepository returns null.
ReturnNull ==
  /\ boot = "loop"
  /\ ~loopContinues(attempt, maxAttempts)
  /\ boot' = "returned"
  /\ sliderRepository' = "null"
  /\ UNCHANGED << resources, instances >>
  /\ UNCHANGED << override, clients, readyState, outbox, pending, last, prev,
                  connOverride, rows, sliderPending >>
  /\ UNCHANGED << history, startup, shutdownState >>

\* createSliderRepository resolves: the repository is returned.
CreateSucceeds ==
  /\ boot = "creating"
  /\ configured
  /\ boot' = "returned"
  /\ sliderRepository' = "open"
  /\ UNCHANGED << resources, instances >>
  /\ UNCHANGED << override, clients, readyState, outbox, pending, last, prev,
                  connOverride, rows, sliderPending >>
  /\ UNCHANGED << history, startup, shutdownState >>

\* createSliderRepository rejects: the catch block waits for the retry
\* delay, or falls through to the next loop test after the last attempt.
CreateFails ==
  /\ boot = "creating"
  /\ IF retries(attempt, maxAttempts)
     THEN /\ boot' = "delaying"
          /\ attempt' = attempt
          /\ delayMs' = retryDelay(BaseDelayMs, attempt)
     ELSE /\ boot' = "loop"
          /\ attempt' = attempt + 1
          /\ delayMs' = 0
  /\ UNCHANGED << pools, configured, instances >>
  /\ UNCHANGED << override, clients, readyState, outbox, pending, last, prev,
                  connOverride, maxAttempts, createCalls, sliderRepository,
                  rows, sliderPending >>
  /\ UNCHANGED << history, shutdownState >>

\* The timer of delay() fires: `continue` goes to the next loop test.
DelayElapsed ==
  /\ boot = "delaying"
  /\ boot' = "loop"
  /\ attempt' = attempt + 1
  /\ delayMs' = 0
  /\ UNCHANGED << pools, configured, instances >>
  /\ UNCHANGED << override, clients, readyState, outbox, pending, last, prev,
                  connOverride, maxAttempts, createCalls, sliderRepository,
                  rows, sliderPending >>
  /\ UNCHANGED << history, shutdownState >>

\* A plausible slip: the call of initializeSliderRepository is not awaited,
\* and the server is started while the first attempt is pending.
awaitedNot(b) == b \in {"creating", "returned"}

\* `await initializeSliderRepository()`: the statements after it run when
\* the function has returned.
awaited(b) == b = "returned"

\* startReplacementModelServer({ sliderRepository }) and the registration of
\* the signal handlers; the locals of initializeSliderRepository are gone.
Start ==
  /\ awaited(boot)
  /\ boot' = "started"
  /\ attempt' = 0
  /\ maxAttempts' = 0
  /\ activeInstance' = 1
  /\ instance' = 1
  /\ startCall' = Started(1, 1, TRUE)
  /\ retired' = {}
  /\ UNCHANGED resources
  /\ UNCHANGED << override, clients, readyState, outbox, pending, last, prev,
                  connOverride, createCalls, sliderRepository, rows,
                  sliderPending >>
  /\ UNCHANGED << history, shutdownState >>

(***************************************************************************)
(* Shutdown: the once-handlers of SIGINT and SIGTERM call instance.close() *)
(* and exit the process when it settles.  close() is                       *)
(*   terminate every client; wss.close(cb1)                                *)
(*   cb1(error): reject, or httpServer.close(cb2)                          *)
(*   cb2(error): reject or resolve                                         *)
(*   finally: activeInstance = null; await sliderRepository.close()        *)
(* The channel server calls cb1 without an error when it has closed, which *)
(* is when its last client has closed, and with an error at once when it   *)
(* had closed before the call; the listener calls cb2 when its last        *)
(* connection has ended.                                                   *)
(***************************************************************************)
Step(call, step) == [call |-> call, step |-> step]

\* The close() calls at the given stage, in the order they were made.
CallsAt(stage) ==
  LET AtStage(e) == e.step = "wss.close" /\ closing[e.call] = stage
      Entries == SelectSeq(teardown, AtStage)
  IN [i \in 1..Len(Entries) |-> Entries[i].call]

InSeq(x, seq) == \E i \in 1..Len(seq) : seq[i] = x

\* The callback handed to wss.close: what it does next.
wssCloseCallback(error) == IF error THEN "reject" ELSE "http.close"

\* The close() calls hs call httpServer.close and the calls fs reach their
\* finally block, after the steps pre were taken.  A call in its finally
\* block awaits sliderRepository.close(), which calls pool.end(); without
\* a repository close() settles, and the handler's finally exits.
Proceed(pre, hs, fs) ==
  /\ teardown' =
       pre \o [i \in 1..Len(hs) |-> Step(hs[i], "http.close")]
           \o (IF sliderRepository = "null" THEN <<>>
               ELSE [i \in 1..Len(fs) |-> Step(fs[i], "repository.close")])
  /\ closing' =
       [k \in Signals |->
          IF InSeq(k, hs) THEN "http"
          ELSE IF InSeq(k, fs)
               THEN (IF sliderRepository = "null" THEN "settled" ELSE "repo")
          ELSE closing[k]]
  /\ sliderRepository' =
       IF fs # <<>> /\ sliderRepository # "null" THEN "ended"
       ELSE sliderRepository
  /\ boot' = IF fs # <<>> /\ sliderRepository = "null" THEN "exited" ELSE boot
  /\ pools' = IF fs # <<>> /\ sliderRepository = "open" THEN pools - 1
              ELSE pools
  /\ activeInstance' = IF fs # <<>> THEN 0 ELSE activeInstance

\* The calls among cs whose wss.close callback goes on to step.
Going(cs, error, step) ==
  IF wssCloseCallback(error) = step THEN cs ELSE <<>>

\* A signal arrives: its handler calls close(), which terminates the
\* clients and calls wss.close.
Shutdown(sig) ==
  /\ boot = "started"
  /\ sig \in signals
  /\ signals' = signals \ {sig}
  /\ readyState' = [c \in Conns |->
                      IF readyState[c] = "OPEN" THEN "CLOSING"
                      ELSE readyState[c]]
  /\ wssState' = IF wssState = "RUNNING" THEN "CLOSING" ELSE wssState
  /\ IF wssState = "CLOSED"
     THEN /\ Proceed(teardown \o << Step(sig, "terminate"),
                                    Step(sig, "wss.close") >>,
                     Going(<< sig >>, TRUE, "http.close"),
                     Going(<< sig >>, TRUE, "reject"))
          /\ httpState' = httpState
     ELSE /\ teardown' = teardown \o << Step(sig, "terminate"),
                                       Step(sig, "wss.close") >>
          /\ closing' = [closing EXCEPT ![sig] = "wss"]
          /\ UNCHANGED << boot, sliderRepository, httpState, pools,
                          activeInstance >>
  /\ UNCHANGED << override, clients, outbox, pending, last, prev,
                  connOverride, rows, sliderPending >>
  /\ UNCHANGED << history, startup, delayMs, configured, instance,
                  startCall, retired >>

\* The last client has closed: the channel server emits 'close' and the
\* callbacks of the pending wss.close calls run.
WssClosed ==
  /\ boot = "started"
  /\ wssState = "CLOSING"
  /\ clients = <<>>
  /\ wssState' = "CLOSED"
  /\ Proceed(teardown, Going(CallsAt("wss"), FALSE, "http.close"),
             Going(CallsAt("wss"), FALSE, "reject"))
  /\ httpState' =
       IF Going(CallsAt("wss"), FALSE, "http.close") # <<>>
          /\ httpState = "listening"
       THEN "closing" ELSE httpState
  /\ UNCHANGED << override, clients, readyState, outbox, pending, last, prev,
                  connOverride, rows, sliderPending, signals >>
  /\ UNCHANGED << history, startup, delayMs, configured, instance,
                  startCall, retired >>

\* The last connection of the listener has ended: it emits 'close' and the
\* callbacks of the pending httpServer.close calls settle their promises.
HttpClosed ==
  /\ boot = "started"
  /\ httpState = "closing"
  /\ pending = <<>>
  /\ sliderPending = <<>>
  /\ httpState' = "closed"
  /\ Proceed(teardown, <<>>, CallsAt("http"))
  /\ UNCHANGED << override, clients, readyState, outbox, pending, last, prev,
                  connOverride, rows, sliderPending, wssState, signals >>
  /\ UNCHANGED << history, startup, delayMs, configured, instance,
                  startCall, retired >>

\* pool.end() settles: close() settles and the handler's finally block
\* calls process.exit(0).
RepositoryClosed(sig) ==
  /\ boot = "started"
  /\ closing[sig] = "repo"
  /\ closing' = [closing EXCEPT ![sig] = "settled"]
  /\ boot' = "exited"
  /\ UNCHANGED << override, clients, readyState, outbox, pending, last, prev,
                  connOverride, sliderRepository, rows, sliderPending,
                  wssState, httpState, signals, teardown >>
  /\ UNCHANGED << history, startup, resources, instances >>

Next ==
  \/ \E c \in Conns : Connect(c)
  \/ \E c \in Conns, data \in MessageData : Message(c, data)
  \/ \E request \in SyncRequests : HttpRequest(request)
  \/ \E u \in PostUrls, b \in Bodies : HttpPostArrive(Request(u, "POST", b))
  \/ \E i \in 1..MaxPending : HttpPostResume(i)
  \/ \E c \in Conns : BeginClose(c)
  \/ \E c \in Conns : SocketClosed(c)

Spec == Init /\ [][Next]_vars

\* The requests without a body that matter to the process: a clear, which
\* broadcasts, and a slider request with a method other than POST.
ProcessRequests ==
  { Request(WS_PATH, "DELETE", BadJson),
    Request(SLIDER_PATH, "GET", BadJson) }

\* The process from its start: line 4 of startReplacementModelServer.ts is
\* about to enter the loop of initializeSliderRepository.
Boot ==
  /\ NoTraffic
  /\ boot = "loop"
  /\ attempt = 1
  /\ maxAttempts \in 0..MaxAttempts
  /\ createCalls = 0
  /\ sliderRepository = "null"
  /\ pools = 0
  /\ configured \in BOOLEAN
  /\ activeInstance = 0
  /\ instance = 0
  /\ startCall = Started(0, 0, FALSE)
  /\ retired = {}

\* The steps of the process: its startup, the requests and connections it
\* serves, and its shutdown.  The updates of the override are in Next.
ProcessNext ==
  \/ CallCreate
  \/ ReturnNull
  \/ CreateSucceeds
  \/ CreateFails
  \/ DelayElapsed
  \/ Start
  \/ \E c \in Conns : Connect(c)
  \/ \E request \in ProcessRequests : HttpRequest(request)
  \/ \E body \in SliderBodies : SliderPostArrive(body)
  \/ \E i \in 1..MaxPending, q \in BOOLEAN : SliderPostResume(i, q)
  \/ \E c \in Conns : SocketClosed(c)
  \/ \E sig \in Signals : Shutdown(sig)
  \/ WssClosed
  \/ HttpClosed
  \/ \E sig \in Signals : RepositoryClosed(sig)

Lifecycle == Boot /\ [][ProcessNext]_vars

\* The scheduling of the startup: the loop test and the call of
\* startReplacementModelServer are synchronous code that runs when it is
\* reached, the promise of createSliderRepository settles one way or the
\* other, and the timer of delay() fires.
StartupFairness ==
  /\ WF_vars(CallCreate)
  /\ WF_vars(ReturnNull)
  /\ WF_vars(CreateSucceeds \/ CreateFails)
  /\ WF_vars(DelayElapsed)
  /\ WF_vars(Start)

FairLifecycle == Lifecycle /\ StartupFairness

(***************************************************************************)
(* The module used as a library: a caller starts the server, keeps the     *)
(* handles it was given and calls close() on them.  The variables of the   *)
(* server describe the newest instance; of an earlier one the model keeps  *)
(* only whether its channel server had closed when it was replaced.        *)
(***************************************************************************)
\* if (activeInstance != null) return activeInstance
activeGuard(active) == active # 0

\* What httpServer.listen(port) comes to: the port is taken while the
\* instance before this one still listens on it ('error' with EADDRINUSE,
\* which the handler logs).
listen(h) == IF h = "listening" THEN "unbound" ELSE "listening"

\* The finally block of close().
closeFinally ==
  /\ activeInstance' = 0
  /\ sliderRepository' =
       IF sliderRepository = "null" THEN "null" ELSE "ended"

\* The messages and requests the callers of the library send.
RestartMessages == {Json(Command("set-model", PathA))}

\* startReplacementModelServer(options) is called again; repo is
\* options.sliderRepository.
StartAgain(repo) ==
  /\ boot = "started"
  /\ startCall.n < MaxStarts
  /\ IF activeGuard(activeInstance)
     THEN /\ startCall' = Started(startCall.n + 1, activeInstance, FALSE)
          /\ UNCHANGED << override, clients, readyState, outbox, pending,
                          connOverride, history, sliderRepository, wssState,
                          httpState, activeInstance, instance, retired >>
     ELSE /\ startCall' = Started(startCall.n + 1, instance + 1, TRUE)
          /\ instance' = instance + 1
          /\ activeInstance' = instance + 1
          /\ retired' = IF wssState = "CLOSED" THEN retired \cup {instance}
                        ELSE retired
          /\ override' = NullOverride
          /\ clients' = <<>>
          /\ readyState' = [c \in Conns |-> "NEW"]
          /\ outbox' = [c \in Conns |-> <<>>]
          /\ pending' = <<>>
          /\ connOverride' = [c \in Conns |-> NullOverride]
          /\ stored' = <<>>
          /\ heard' = [c \in Conns |-> <<>>]
          /\ joined' = [c \in Conns |-> 0]
          /\ sliderRepository' = repo
          /\ wssState' = "RUNNING"
          /\ httpState' = listen(httpState)
  /\ UNCHANGED << last, prev, boot, startup, rows, sliderPending, signals,
                  closing, teardown, resources >>

\* close() is called on the handle of instance i.  On the newest instance
\* with its channel server running, the clients are terminated and
\* wss.close waits for them.  On an instance whose channel server has
\* closed, wss.close reports 'The server is not running', the promise
\* rejects and the finally block runs.
CloseCall(i) ==
  /\ boot = "started"
  /\ i \in 1..instance
  /\ IF i = instance /\ wssState = "RUNNING"
     THEN /\ readyState' = [c \in Conns |->
                              IF readyState[c] = "OPEN" THEN "CLOSING"
                              ELSE readyState[c]]
          /\ wssState' = "CLOSING"
          /\ UNCHANGED << activeInstance, sliderRepository >>
     ELSE /\ \/ i = instance /\ wssState = "CLOSED"
             \/ i \in retired
          /\ closeFinally
          /\ UNCHANGED << readyState, wssState >>
  /\ UNCHANGED << override, clients, outbox, pending, last, prev,
                  connOverride, history, boot, startup, rows, sliderPending,
                  httpState, signals, closing, teardown, resources,
                  instance, startCall, retired >>

\* The last client has closed: the channel server emits 'close' and the
\* callback of wss.close calls httpServer.close, which reports an error at
\* once on a server that does not listen.
ChannelClosed ==
  /\ boot = "started"
  /\ wssState = "CLOSING"
  /\ clients = <<>>
  /\ wssState' = "CLOSED"
  /\ IF httpState = "listening"
     THEN /\ httpState' = "closing"
          /\ UNCHANGED << activeInstance, sliderRepository >>
     ELSE /\ closeFinally
          /\ UNCHANGED httpState
  /\ UNCHANGED << override, clients, readyState, outbox, pending, last, prev,
                  connOverride, history, boot, startup, rows, sliderPending,
                  signals, closing, teardown, resources, instance,
                  startCall, retired >>

\* The listener emits 'close': the promise resolves and the finally block
\* runs.
ListenerClosed ==
  /\ boot = "started"
  /\ httpState = "closing"
  /\ pending = <<>>
  /\ httpState' = "closed"
  /\ closeFinally
  /\ UNCHANGED << override, clients, readyState, outbox, pending, last, prev,
                  connOverride, history, boot, startup, rows, sliderPending,
                  wssState, signals, closing, teardown, resources, instance,
                  startCall, retired >>

RestartNext ==
  \/ \E repo \in {"null", "open"} : StartAgain(repo)
  \/ \E i \in 1..MaxStarts : CloseCall(i)
  \/ ChannelClosed
  \/ ListenerClosed
  \/ \E c \in Conns : Connect(c)
  \/ \E c \in Conns, data \in RestartMessages : Message(c, data)
  \/ \E c \in Conns : SocketClosed(c)

Restarts == Init /\ [][RestartNext]_vars

TypeOK ==
  /\ readyState \in [Conns -> {"NEW", "OPEN", "CLOSING", "CLOSED"}]
  /\ last.seq \in 0..MaxOps
  /\ Len(pending) <= MaxPending
  /\ httpState \in {"listening", "closing", "closed", "unbound"}
  /\ \A i \in 1..Len(clients) : readyState[clients[i]] \in {"OPEN", "CLOSING"}
  /\ delayMs \in 0..(BaseDelayMs * MaxAttempts)
  /\ pools \in 0..MaxAttempts
  /\ configured \in BOOLEAN
  /\ activeInstance \in 0..instance
  /\ startCall.returned \in 0..instance
  /\ startCall.n \in 0..MaxStarts
  /\ retired \subseteq 1..instance

(***************************************************************************)
(* Vocabulary of the properties: what an event r (last or prev) was.       *)
(***************************************************************************)
IsSetModel(r) ==
  /\ r.kind = "message"
  /\ r.input.parses
  /\ r.input.value.t = "object"
  /\ r.input.value.type = "set-model"

IsPost(r) == r.kind = "http" /\ awaitsBody(r.input)

\* The payload an update request carried, as the client wrote it.
RawPayload(r) ==
  IF r.kind = "message" THEN r.input.value.payload ELSE r.input.body.value

\* The request was answered as a success.
Accepted(r) ==
  \/ r.kind = "message" /\ r.error = ""
  \/ r.kind = "http" /\ r.status = 204

AcceptedUpdate(r) ==
  /\ IsSetModel(r) \/ IsPost(r)
  /\ Accepted(r)
  /\ RawPayload(r).t = "object"

Sets(r, field) == ~IsNullish(RawPayload(r).fields[field])

SetsClearSentinel(r) ==
  RawPayload(r).fields.modelPath = JStr("clear")

SetsClearedTrue(r) ==
  RawPayload(r).fields.cleared \in {JBool(TRUE), JStr("true")}

IsClearModel(r) ==
  /\ r.kind = "message"
  /\ r.input.parses
  /\ r.input.value.t = "object"
  /\ r.input.value.type = "clear-model"

IsDelete(r) ==
  /\ r.kind = "http"
  /\ r.input.url # "null"
  /\ r.input.method = "DELETE"
  /\ Pathname(r.input.url) = WS_PATH

\* One of the three clear forms.
ClearRun(r) ==
  \/ IsClearModel(r)
  \/ IsDelete(r)
  \/ AcceptedUpdate(r) /\ (SetsClearSentinel(r) \/ SetsClearedTrue(r))

NonClearUpdate(r) ==
  AcceptedUpdate(r) /\ ~SetsClearSentinel(r) /\ ~SetsClearedTrue(r)

HiddenOnly == [visible |-> FALSE]

(***************************************************************************)
(* C1 (as stated): whenever isClearedOverride holds of the stored          *)
(* override, the override is exactly {cleared: true, visible: false}.      *)
(* Refuted: an update {visible: false} on a null override stores           *)
(* {visible: false}, of which isClearedOverride holds as well.             *)
(***************************************************************************)
C1_ClearedIsCanonical ==
  isClearedOverride(override) => override = Cleared

\* C1 (amended): whenever isClearedOverride holds of the stored override,
\* the override is exactly {cleared: true, visible: false} or exactly
\* {visible: false}.
C1_ClearedShapes ==
  isClearedOverride(override) => override \in {Cleared, HiddenOnly}

C1_Witness ==
  /\ isClearedOverride(override)
  /\ override = HiddenOnly
  /\ AcceptedUpdate(last)
  /\ last.pre = NullOverride

(***************************************************************************)
(* C2 (as stated): each of the three clear forms leaves the stored         *)
(* override equal to {cleared: true, visible: false}.  Refuted: from       *)
(* {visible: false} every clear form is a no-op and the override stays     *)
(* {visible: false}.                                                       *)
(***************************************************************************)
C2_ClearStoresCanonical ==
  ClearRun(last) => override = Cleared

\* C2 (amended): from an override of which isClearedOverride is false (null
\* included) each of the three clear forms stores exactly
\* {cleared: true, visible: false}, merging none of the fields sent with
\* the sentinel; from an override of which it is true they leave the
\* override as it was.
C2_ClearConverges ==
  ClearRun(last) =>
    /\ override = last.post
    /\ last.post = IF isClearedOverride(last.pre) THEN last.pre ELSE Cleared

C2_Witness ==
  /\ ClearRun(last)
  /\ AcceptedUpdate(last)
  /\ SetsClearSentinel(last)
  /\ Sets(last, "scale")
  /\ last.pre # NullOverride
  /\ Has(last.pre, "modelPath")
  /\ override = Cleared

(***************************************************************************)
(* C3: two clear operations in a row, the first from an override of which  *)
(* isClearedOverride is false: the first stores the canonical cleared      *)
(* shape and broadcasts once, the second changes nothing and sends         *)
(* nothing, so one broadcast in total.                                     *)
(***************************************************************************)
C3_ClearIdempotent ==
  (ClearRun(prev) /\ ~isClearedOverride(prev.pre) /\ ClearRun(last)) =>
    /\ prev.post = Cleared
    /\ prev.bcasts = 1
    /\ last.pre = Cleared
    /\ last.post = Cleared
    /\ override = Cleared
    /\ last.bcasts = 0
    /\ last.sends = <<>>
    /\ prev.bcasts + last.bcasts = 1

C3_Witness ==
  /\ ClearRun(prev)
  /\ ~isClearedOverride(prev.pre)
  /\ ClearRun(last)
  /\ prev.sends # <<>>
  /\ last.sends = <<>>
  /\ override = Cleared

(***************************************************************************)
(* C4 (as stated): an accepted update that sets a modelPath other than     *)
(* "clear" and does not set visible stores visible true and the new        *)
(* modelPath.  Refuted: {modelPath: "a", cleared: true} is accepted, sets  *)
(* such a path and no visible, and is carried out as a clear.              *)
(***************************************************************************)
SetsNewPath(r) ==
  /\ RawPayload(r).fields.modelPath.t = "string"
  /\ RawPayload(r).fields.modelPath.s # "clear"

C4_RestoreOnAnyPathUpdate ==
  (AcceptedUpdate(last) /\ SetsNewPath(last) /\ ~Sets(last, "visible")) =>
    /\ Has(override, "visible") /\ override.visible = TRUE
    /\ Has(override, "modelPath")
    /\ override.modelPath = RawPayload(last).fields.modelPath.s

\* C4 (amended): for every prior override (null, active with visible false,
\* or cleared), an accepted update that sets a modelPath other than "clear",
\* does not set visible and does not set cleared to true stores an override
\* whose visible is true and whose modelPath is the new path.
C4_VisibilityAutoRestore ==
  (NonClearUpdate(last) /\ SetsNewPath(last) /\ ~Sets(last, "visible")) =>
    /\ Has(override, "visible") /\ override.visible = TRUE
    /\ Has(override, "modelPath")
    /\ override.modelPath = RawPayload(last).fields.modelPath.s

C4_Witness ==
  /\ NonClearUpdate(last) /\ SetsNewPath(last) /\ ~Sets(last, "visible")
  /\ last.pre = [modelPath |-> "b", visible |-> FALSE]
  /\ override = [modelPath |-> "a", visible |-> TRUE]

(***************************************************************************)
(* C5 (as stated): an accepted update that sets neither modelPath nor      *)
(* visible stores no visible field when the stored visible was false, and  *)
(* leaves visible as it was when it was true or absent.  Refuted: an       *)
(* accepted {rotation: 30, cleared: "true"} is such an update and stores   *)
(* {cleared: true, visible: false}.                                        *)
(***************************************************************************)
SameVisible(a, b) ==
  /\ Has(a, "visible") <=> Has(b, "visible")
  /\ Has(a, "visible") => a.visible = b.visible

StripOrKeep(r) ==
  IF Has(r.pre, "visible") /\ r.pre.visible = FALSE
  THEN ~Has(r.post, "visible")
  ELSE SameVisible(r.pre, r.post)

C5_StripOnAnyOtherUpdate ==
  ( /\ AcceptedUpdate(last)
    /\ ~Sets(last, "modelPath")
    /\ ~Sets(last, "visible") ) =>
      override = last.post /\ StripOrKeep(last)

\* C5 (amended): when the stored override has visible false, an accepted
\* update that sets neither modelPath nor visible, and does not set cleared
\* to true, stores an override with no visible field at all; when the stored
\* visible is true or absent, the same update leaves visible as it was.
C5_VisibilityStrip ==
  ( /\ NonClearUpdate(last)
    /\ ~Sets(last, "modelPath")
    /\ ~Sets(last, "visible") ) =>
      override = last.post /\ StripOrKeep(last)

C5_Witness ==
  /\ NonClearUpdate(last)
  /\ ~Sets(last, "modelPath")
  /\ ~Sets(last, "visible")
  /\ last.pre = [modelPath |-> "b", visible |-> FALSE]
  /\ override = [modelPath |-> "b", scale |-> 2]

(***************************************************************************)
(* Vocabulary of the messaging properties.                                 *)
(***************************************************************************)
IsGetModel(r) ==
  /\ r.kind = "message"
  /\ r.input.parses
  /\ r.input.value.t = "object"
  /\ r.input.value.type = "get-model"

\* The send calls the run r made on connection c.
RunSendsTo(r, c) == SendsTo(r.sends, c)

IsUpdateOf(send, o) == Decoded(send.msg) = ModelUpdate(o)

IsReply(send) == Decoded(send.msg).type \in {"model-update", "error"}

\* A clear request that found the override already cleared.
RedundantClear(r) == ClearRun(r) /\ isClearedOverride(r.pre)

\* A send of the run r threw inside safeSend.
SomeSendThrew(r) == \E i \in 1..Len(r.sends) : ~r.sends[i].ok

(***************************************************************************)
(* C6: every accepted non-clear update, from a channel set-model or an     *)
(* HTTP POST, makes exactly one send to each connection open at that       *)
(* moment (the sender of a set-model included) and none to any other; each *)
(* of these sends carries a model-update whose payload is the override the *)
(* update stored.                                                          *)
(***************************************************************************)
C6_BroadcastFanOut ==
  NonClearUpdate(last) =>
    /\ override = last.post
    /\ \A c \in Conns :
         Len(RunSendsTo(last, c)) = IF c \in last.open THEN 1 ELSE 0
    /\ \A i \in 1..Len(last.sends) : IsUpdateOf(last.sends[i], override)
    /\ last.kind = "message" => last.conn \in last.open

\* A set-model update that found two open connections.
C6_Witness ==
  /\ NonClearUpdate(last)
  /\ IsSetModel(last)
  /\ Cardinality(last.open) = 2
  /\ Len(last.sends) = 2

(***************************************************************************)
(* C7 (as stated): every message of a channel client causes at least one   *)
(* message, model-update or error, to be sent back to that client.         *)
(* Refuted: a clear-model (or a set-model asking for a clear) that finds   *)
(* the override already cleared returns from clearOverride without any     *)
(* send.                                                                   *)
(***************************************************************************)
C7_EveryMessageReplied ==
  last.kind = "message" =>
    \E i \in 1..Len(last.sends) :
      last.sends[i].to = last.conn /\ IsReply(last.sends[i])

(***************************************************************************)
(* C7 (amended): every message of a channel client causes at least one     *)
(* message, model-update or error, to be sent back to that client, except  *)
(* a clear request (clear-model, or an accepted set-model with modelPath   *)
(* "clear" or cleared true) that arrives while the override is already     *)
(* cleared: that one is handled without any send and leaves the override   *)
(* as it was.                                                              *)
(***************************************************************************)
C7_RepliedUnlessRedundantClear ==
  last.kind = "message" =>
    IF RedundantClear(last)
    THEN last.sends = <<>> /\ override = last.pre
    ELSE \E i \in 1..Len(last.sends) :
           last.sends[i].to = last.conn /\ IsReply(last.sends[i])

\* A clear-model answered by the broadcast of the cleared override, then a
\* second clear-model from the same connection handled without any send.
C7_Witness ==
  /\ IsClearModel(prev) /\ IsClearModel(last)
  /\ prev.conn = last.conn
  /\ \E i \in 1..Len(prev.sends) :
       prev.sends[i].to = prev.conn /\ IsReply(prev.sends[i])
  /\ RedundantClear(last)
  /\ last.sends = <<>>

(***************************************************************************)
(* C8: a get-model message makes exactly one send, to the connection that  *)
(* asked, of a model-update carrying the current override; it makes no     *)
(* send to any other connection and leaves the stored override unchanged.  *)
(***************************************************************************)
C8_GetModelUnicast ==
  IsGetModel(last) =>
    /\ Len(last.sends) = 1
    /\ last.sends[1].to = last.conn
    /\ IsUpdateOf(last.sends[1], last.pre)
    /\ override = last.pre
    /\ last.bcasts = 0

\* A get-model asked while another connection is open too.
C8_Witness ==
  /\ IsGetModel(last)
  /\ Cardinality(last.open) = 2
  /\ Len(last.sends) = 1

(***************************************************************************)
(* C9: when a send throws during a broadcast, the loop still makes its     *)
(* send of the model-update to every open connection, the sends to the     *)
(* others succeed, and the triggering request or message completes as a    *)
(* success: HTTP 204, and on the channel no error and no error message.    *)
(***************************************************************************)
C9_BroadcastResilience ==
  (last.bcasts = 1 /\ SomeSendThrew(last)) =>
    /\ \A c \in last.open :
         /\ Len(RunSendsTo(last, c)) = 1
         /\ IsUpdateOf(RunSendsTo(last, c)[1], override)
    /\ \A i \in 1..Len(last.sends) : Decoded(last.sends[i].msg).type # "error"
    /\ last.error = ""
    /\ ~last.uncaught
    /\ last.kind = "http" => last.status = 204

\* A broadcast in which the send to one connection threw and the send to
\* another connection went through.
C9_Witness ==
  /\ last.bcasts = 1
  /\ \E i, j \in 1..Len(last.sends) :
       /\ ~last.sends[i].ok
       /\ last.sends[j].ok
       /\ last.sends[i].to # last.sends[j].to

(***************************************************************************)
(* C10: the first send made on a connection is the model-update carrying   *)
(* the override stored at the moment it connected (null if none was set);  *)
(* it is made in the connection event itself, so before any message of     *)
(* that connection is processed and before any broadcast includes it.      *)
(***************************************************************************)
C10_GreetingFirst ==
  \A c \in Conns :
    /\ readyState[c] = "NEW" => outbox[c] = <<>>
    /\ readyState[c] # "NEW" =>
         /\ outbox[c] # <<>>
         /\ IsUpdateOf(outbox[c][1], connOverride[c])
    /\ (last.kind = "connection" /\ last.conn = c) =>
         /\ outbox[c] = last.sends
         /\ Len(last.sends) = 1
         /\ connOverride[c] = last.pre

\* A connection made after an override was stored, and served since.
C10_Witness ==
  \E c \in Conns :
    /\ connOverride[c] # NullOverride
    /\ Len(outbox[c]) >= 2
    /\ IsUpdateOf(outbox[c][1], connOverride[c])

(***************************************************************************)
(* C11: for every connection that is open and on which no broadcast send   *)
(* has thrown, the model-update payloads that broadcasts sent to it, in    *)
(* the order of the sends, are exactly the override values stored since it *)
(* connected, in the order the server stored them, whichever front-end     *)
(* each update came through.                                               *)
(***************************************************************************)
C11_BroadcastOrder ==
  \A c \in Conns :
    (readyState[c] = "OPEN" /\ \A i \in 1..Len(heard[c]) : heard[c][i].ok) =>
      /\ Len(heard[c]) = Len(stored) - joined[c]
      /\ \A i \in 1..Len(heard[c]) :
           IsUpdateOf(heard[c][i], stored[joined[c] + i])

\* A connection that heard two broadcasts of different values, one stored
\* through HTTP and one through the channel.
C11_Witness ==
  \E c \in Conns :
    /\ readyState[c] = "OPEN"
    /\ Len(heard[c]) = 2
    /\ heard[c][1].ok /\ heard[c][2].ok
    /\ heard[c][1].msg # heard[c][2].msg
    /\ prev.kind = "http" /\ last.kind = "message"

(***************************************************************************)
(* Vocabulary of the rejection properties.                                 *)
(***************************************************************************)
\* An update request whose payload normalizes to no field at all.
EmptyUpdate(r) ==
  /\ IsSetModel(r) \/ IsPost(r)
  /\ normalizeOverrides(RawPayload(r)).ok
  /\ DOMAIN normalizeOverrides(RawPayload(r)).value = {}

\* An update request whose payload is exactly {modelPath: "clear"}.
ClearOnlyUpdate(r) ==
  /\ IsSetModel(r) \/ IsPost(r)
  /\ RawPayload(r) = ClearOnly

\* The run sent an error message to its own connection.
ErrorReplied(r) ==
  \E i \in 1..Len(r.sends) :
    r.sends[i].to = r.conn /\ Decoded(r.sends[i].msg).type = "error"

\* The request was answered as a failure of the request itself.
Rejected(r) ==
  \/ r.kind = "http" /\ r.status = 400
  \/ r.kind = "message" /\ r.error # "" /\ ErrorReplied(r)

NoUpdateSent(r) ==
  \A i \in 1..Len(r.sends) : Decoded(r.sends[i].msg).type # "model-update"

(***************************************************************************)
(* C12: an update whose normalized field set is empty, which is therefore  *)
(* no clear request, is rejected on both front-ends, a POST with status    *)
(* 400 and a set-model with an error message to its sender; an update      *)
(* whose payload holds only modelPath "clear" is accepted and leaves the   *)
(* override cleared.                                                       *)
(***************************************************************************)
C12_EmptyUpdateRejected ==
  /\ EmptyUpdate(last) => Rejected(last) /\ override = last.pre
  /\ ClearOnlyUpdate(last) =>
       /\ Accepted(last)
       /\ isClearedOverride(override)
       /\ ~isClearedOverride(last.pre) => override = Cleared

\* A set-model with an empty payload answered by an error, then a set-model
\* with only modelPath "clear" accepted as a clear.
C12_Witness ==
  /\ EmptyUpdate(prev) /\ Rejected(prev)
  /\ ClearOnlyUpdate(last) /\ Accepted(last)
  /\ override = Cleared
  /\ last.pre # Cleared

(***************************************************************************)
(* C13: whenever a POST of an update is answered 400 or a channel message  *)
(* is answered with an error (invalid JSON, a payload that is no object, a *)
(* field that fails its rule, an empty update), the stored override is the *)
(* one from before the request and no model-update is sent to any          *)
(* connection.                                                             *)
(***************************************************************************)
C13_RejectedHasNoEffect ==
  ((IsPost(last) \/ last.kind = "message") /\ Rejected(last)) =>
    /\ override = last.pre
    /\ NoUpdateSent(last)
    /\ last.bcasts = 0

\* A set-model whose payload fails a field rule, rejected while an override
\* is stored and its sender is connected.
C13_Witness ==
  /\ IsSetModel(last)
  /\ RawPayload(last) \in InvalidPayloads \ {JNull}
  /\ Rejected(last)
  /\ override # NullOverride
  /\ last.open # {}

(***************************************************************************)
(* C14: a message that cannot be decoded, or whose type is none of the     *)
(* three commands, makes exactly one send: an error message to the         *)
(* connection it came from.  Nothing is sent to any other connection, the  *)
(* override is untouched, and the sender stays open and is included in the *)
(* next broadcast.                                                         *)
(***************************************************************************)
UnknownMessage(r) ==
  /\ r.kind = "message"
  /\ \/ ~r.input.parses
     \/ r.input.value.t # "object"
     \/ r.input.value.type \notin {"set-model", "clear-model", "get-model"}

C14_ChannelErrorIsolation ==
  /\ UnknownMessage(last) =>
       /\ Len(last.sends) = 1
       /\ last.sends[1].to = last.conn
       /\ Decoded(last.sends[1].msg).type = "error"
       /\ override = last.pre
       /\ readyState[last.conn] = "OPEN"
       /\ last.conn \in last.open
  /\ (UnknownMessage(prev) /\ last.bcasts = 1 /\ prev.conn \in last.open) =>
       /\ Len(RunSendsTo(last, prev.conn)) = 1
       /\ IsUpdateOf(RunSendsTo(last, prev.conn)[1], override)

\* An unknown message answered by an error, and its sender reached by the
\* broadcast of the next update.
C14_Witness ==
  /\ UnknownMessage(prev)
  /\ ErrorReplied(prev)
  /\ last.bcasts = 1
  /\ Len(RunSendsTo(last, prev.conn)) = 1

(***************************************************************************)
(* C15 (as stated, for every method but the preflight method OPTIONS,      *)
(* which is answered 204 on every path): every HTTP request whose path is  *)
(* neither the base path nor the slider-values path is answered 404.       *)
(* Refuted: the request target "//" is neither path, parseRequestUrl       *)
(* throws on it, and the createServer callback answers 500.                *)
(***************************************************************************)
UnknownPath(r) ==
  /\ r.kind = "http"
  /\ r.input.url # "null"
  /\ Pathname(r.input.url) \notin {WS_PATH, SLIDER_PATH}

C15_UnknownPathIs404 ==
  (UnknownPath(last) /\ last.input.method # "OPTIONS") => last.status = 404

(***************************************************************************)
(* Slider submissions.  A step is a slider run when it records a new run   *)
(* of the slider handler on a POST.                                        *)
(***************************************************************************)
SliderRun(r) == r.kind = "slider"

SliderStep == last'.seq = last.seq + 1 /\ SliderRun(last')

\* The submission normalizeSliderSubmission makes of the body of run r.
SubmissionOf(r) ==
  IF JsonParse(r.input.body).ok
  THEN normalizeSliderSubmission(JsonParse(r.input.body).value)
  ELSE JsonParse(r.input.body)

\* The body of r is a submission with every field in its domain.
ValidSubmission(r) ==
  /\ SliderRun(r)
  /\ SubmissionOf(r).ok
  /\ IsFinite(SubmissionOf(r).value.value)

\* The body of r is an object whose value is present and is not a finite
\* number: not a number or numeric string, or an infinite one.
NonFiniteValue(r) ==
  /\ SliderRun(r)
  /\ JsonParse(r.input.body).ok
  /\ JsonParse(r.input.body).value.t = "object"
  /\ ~IsNullish(JsonParse(r.input.body).value.fields.value)
  /\ ~(/\ coerceNumber(JsonParse(r.input.body).value.fields.value).ok
       /\ IsFinite(coerceNumber(
                      JsonParse(r.input.body).value.fields.value).value))

\* C16: while the server runs without a repository, every run of the
\* slider handler on a valid submission is answered 503 (so never 202 or
\* 500), appends no row, and makes no call of createSliderRepository: the
\* startup counters and the repository stay as they were.
C16_UnavailableIs503 ==
  [][(SliderStep /\ sliderRepository = "null" /\ ValidSubmission(last'))
       => /\ last'.status = 503
          /\ rows' = rows
          /\ startup' = startup
          /\ sliderRepository' = "null"]_vars

\* Every attempt of the startup failed, the server started without a
\* repository, and a valid submission was answered 503.
C16_Witness ==
  /\ ValidSubmission(last)
  /\ last.status = 503
  /\ sliderRepository = "null"
  /\ createCalls > 0
  /\ boot = "started"
  /\ rows = <<>>

\* C17: a slider submission whose value is present but is not a finite
\* number is answered 400.  An infinite value ("Infinity", or 1e999 in the
\* JSON text) passes normalizeSliderSubmission; it is answered 500 by the
\* test in persistSubmission, or 503 without a repository.
C17_NonFiniteValueIs400 ==
  NonFiniteValue(last) => last.status = 400

\* C18: the rows change only by a slider run answered 202, which appends
\* exactly the row of its submission; every other step of the server, the
\* runs answered 400, 405, 500 and 503 among them, leaves the rows as they
\* were.
C18_RowsAppendOnly ==
  [][IF SliderStep /\ last'.status = 202
     THEN /\ SubmissionOf(last').ok
          /\ rows' = Append(rows, Row(SubmissionOf(last').value))
     ELSE rows' = rows]_vars

\* A submission was answered 202 and its row, with the session id trimmed
\* and the given time, is the one row of the log.
C18_Witness ==
  /\ SliderRun(last)
  /\ last.status = 202
  /\ Len(rows) = 1
  /\ rows[1].session_id = "a"
  /\ rows[1].recorded_at = JDate(1000)
(***************************************************************************)
(* Startup.                                                                *)
(***************************************************************************)
\* What initializeSliderRepository returns, against the calls it made: a
\* repository from the call numbered by the loop variable, which is within
\* maxAttempts, or null after maxAttempts calls.
StartupOutcome ==
  /\ sliderRepository \in {"open", "null"}
  /\ sliderRepository = "open"
       => createCalls = attempt /\ attempt \in 1..maxAttempts
  /\ sliderRepository = "null" => createCalls = maxAttempts

\* C19: whatever the attempts of createSliderRepository do, the function
\* initializeSliderRepository returns: with the repository of attempt k
\* after exactly k calls, k <= maxAttempts, or with null after exactly
\* maxAttempts failed calls; the server is then started with what was
\* returned.
C19_StartupRetryOutcome ==
  /\ <>(boot = "returned" /\ StartupOutcome)
  /\ [][boot = "returned"
         => boot' = "started" /\ sliderRepository' = sliderRepository]_vars
  /\ <>(boot = "started")

\* The first attempt failed and the second, the last one allowed, gave the
\* repository.
C19_Witness ==
  /\ boot = "returned"
  /\ sliderRepository = "open"
  /\ createCalls = MaxAttempts
  /\ maxAttempts = MaxAttempts
(***************************************************************************)
(* Shutdown.                                                               *)
(***************************************************************************)
\* The positions in the teardown log where the call takes the step.
StepsOf(call, step) ==
  {i \in 1..Len(teardown) : teardown[i] = Step(call, step)}

\* C20: every call of close() that closes the repository has closed the
\* HTTP listener before, after it terminated the clients and stopped the
\* channel server.  The close() of a second signal that arrives when the
\* channel server has closed gets an error from wss.close, skips
\* httpServer.close and closes the repository while the listener is still
\* closing.
C20_ShutdownOrder ==
  \A sig \in Signals :
    \A r \in StepsOf(sig, "repository.close") :
      \E t \in StepsOf(sig, "terminate"), w \in StepsOf(sig, "wss.close"),
         h \in StepsOf(sig, "http.close") :
        t < w /\ w < h /\ h < r
(***************************************************************************)
(* The merge.                                                              *)
(***************************************************************************)
MergedFields == {"modelPath", "scale", "rotation", "elevation"}

\* The value normalizeOverrides gives the field of the payload of run r.
SentValue(r, field) == normalizeOverrides(RawPayload(r)).value[field]

\* The field is the same, present or absent, in the overrides a and b.
SameField(a, b, field) ==
  /\ Has(a, field) <=> Has(b, field)
  /\ Has(a, field) => a[field] = b[field]

\* C23: after an accepted update that is not a clear, each of modelPath,
\* scale, rotation and elevation that the update sets has the value sent,
\* and each that it does not set is as it was in the previous override,
\* absent when that override was null or had no such field.
C23_ShallowMergeRetention ==
  NonClearUpdate(last) =>
    /\ override = last.post
    /\ \A field \in MergedFields :
         IF Sets(last, field)
         THEN Has(override, field) /\ override[field] = SentValue(last, field)
         ELSE SameField(OrEmpty(last.pre), override, field)

\* A set-model that sets the scale alone was merged over an override with a
\* path: the path is kept and the scale is the one sent.
C23_Witness ==
  /\ NonClearUpdate(last)
  /\ IsSetModel(last)
  /\ ~Sets(last, "modelPath")
  /\ Sets(last, "scale")
  /\ last.pre = [modelPath |-> "a", visible |-> TRUE]
  /\ override = [modelPath |-> "a", visible |-> TRUE, scale |-> 2]

\* C24: the override stored by an accepted update that is not a clear has
\* no cleared field, and in every state an override with cleared true is
\* exactly {cleared: true, visible: false}, the value clearOverride
\* writes: it has none of modelPath, scale, rotation and elevation.
C24_ClearedIsTransient ==
  /\ NonClearUpdate(last) => ~Has(override, "cleared")
  /\ (override # NullOverride /\ Has(override, "cleared")) =>
       /\ override = Cleared
       /\ \A field \in MergedFields : ~Has(override, field)

\* An update of the scale alone was merged over the cleared override: what
\* it stored has neither the cleared flag nor the hidden visible.
C24_Witness ==
  /\ NonClearUpdate(last)
  /\ last.pre = Cleared
  /\ override = [scale |-> 2]
(***************************************************************************)
(* Serialization of the updates.                                           *)
(***************************************************************************)
\* The step records a new run of a request or message handler.
HandlerStep ==
  last'.seq = last.seq + 1 /\ last'.kind \in {"http", "message"}

\* The override after the update of run r is applied, alone, to o: a clear
\* is a no-op on a cleared override and stores the cleared shape otherwise,
\* an accepted update is merged over o, anything else leaves o.
Serial(o, r) ==
  IF ClearRun(r) /\ Accepted(r)
  THEN (IF isClearedOverride(o) THEN o ELSE Cleared)
  ELSE IF NonClearUpdate(r)
       THEN (IF r.kind = "http"
             THEN nextOverrideHttp(o, normalizeOverrides(RawPayload(r)).value)
             ELSE nextOverrideWs(o, normalizeOverrides(RawPayload(r)).value))
  ELSE o

SameOutcome(h, w, o) ==
  /\ (h.status = 204) <=> (w.error = "")
  /\ h.override = w.override
  /\ h.bcasts = w.bcasts
  /\ h.status = 204 => h.sends = w.sends
  /\ h.status # 204 => h.override = o /\ h.bcasts = 0

\* What run r did, as the outcome of its handler.
OutcomeOf(r) ==
  [status |-> r.status, error |-> r.error, override |-> r.post,
   bcasts |-> r.bcasts, sends |-> r.sends]

\* The set-model message, or the POST request, with the payload of run r.
AsSetModel(r) == Json(Command("set-model", RawPayload(r)))
AsPost(r) == Request(WS_PATH, "POST", Json(RawPayload(r)))

\* C28: whenever one front-end has handled an update or a clear, the other
\* front-end, given the same payload, the same stored override (last.pre)
\* and the same clients (a handler run leaves them as they were), is
\* accepted or rejected alike, stores the same override and makes the same
\* broadcast: POST against set-model, DELETE against clear-model.
C28_FrontEndsEquivalent ==
  /\ (IsPost(last) /\ last.input.body.parses) =>
       \A c \in Conns : \E fails \in FailSets :
         SameOutcome(OutcomeOf(last),
                     onMessage(c, AsSetModel(last), last.pre, Env(fails)),
                     last.pre)
  /\ IsSetModel(last) =>
       \E fails \in FailSets :
         SameOutcome(handleHttpRequest(AsPost(last), last.pre, Env(fails)),
                     OutcomeOf(last), last.pre)
  /\ IsDelete(last) =>
       \A c \in Conns : \E fails \in FailSets :
         SameOutcome(OutcomeOf(last),
                     onMessage(c, Json(Command("clear-model", Undef)),
                               last.pre, Env(fails)),
                     last.pre)
  /\ IsClearModel(last) =>
       \E fails \in FailSets :
         SameOutcome(handleHttpRequest(Request(WS_PATH, "DELETE", BadJson),
                                       last.pre, Env(fails)),
                     OutcomeOf(last), last.pre)

\* A POST was accepted, merged and broadcast to an open connection, and the
\* set-model with its payload, run from the same override, does the same.
C28_Witness ==
  /\ IsPost(last) /\ NonClearUpdate(last)
  /\ last.sends # <<>>
  /\ override = last.post
  /\ override # last.pre
  /\ \E c \in OpenConns :
       /\ onMessage(c, AsSetModel(last), last.pre, Env({})).override = override
       /\ onMessage(c, AsSetModel(last), last.pre, Env({})).sends = last.sends
(***************************************************************************)
(* What the displays show.                                                 *)
(***************************************************************************)
\* The model-update messages sent to connection c, in order.
UpdatesTo(c) ==
  LET IsModelUpdate(x) == Decoded(x.msg).type = "model-update"
  IN SelectSeq(outbox[c], IsModelUpdate)

\* No send to connection c has thrown.
NoSendFailed(c) == \A i \in 1..Len(outbox[c]) : outbox[c][i].ok

\* C29: between handler runs, every open connection to which no send has
\* failed has received a model-update, and the payload of the last one is
\* the override the server stores.
C29_DisplayConsistency ==
  \A c \in OpenConns :
    NoSendFailed(c) =>
      /\ UpdatesTo(c) # <<>>
      /\ Decoded(UpdatesTo(c)[Len(UpdatesTo(c))].msg) = ModelUpdate(override)

\* Two connections are open, an update was stored after both connected,
\* and the last model-update of each carries it.
C29_Witness ==
  /\ Cardinality(OpenConns) = 2
  /\ override # NullOverride
  /\ last.bcasts = 1
  /\ \A c \in OpenConns :
       /\ NoSendFailed(c)
       /\ Len(UpdatesTo(c)) = 2
       /\ Decoded(UpdatesTo(c)[2].msg).payload = override
(***************************************************************************)
(* Failures during shutdown.                                               *)
(***************************************************************************)
\* The promise of the close() call of the signal has settled: the call is
\* in its finally block or past it.
PromiseSettled(sig) == closing[sig] \in {"repo", "settled"}

\* C25: a failure of a shutdown step does not keep the later steps from
\* running, so every close() call whose promise has settled has called
\* httpServer.close.  When wss.close reports an error the callback rejects
\* and returns before httpServer.close: the call goes from the channel
\* server straight to the repository, and the rejection leaves close().
C25_ShutdownStepsAllRun ==
  \A sig \in Signals :
    PromiseSettled(sig) => StepsOf(sig, "http.close") # {}
(***************************************************************************)
(* Startup sequencing.                                                     *)
(***************************************************************************)
\* A request, message or connection event of the server took place.
Served ==
  \/ last' # last
  \/ clients' # clients
  \/ outbox' # outbox
  \/ sliderPending' # sliderPending
  \/ rows' # rows

\* C27: the server is started from the return of
\* initializeSliderRepository and from nowhere else, and every connection,
\* request and message is served by a started server: none while a call of
\* createSliderRepository or a retry delay is pending.
C27_StartupSequencing ==
  [][/\ (boot' = "started" /\ boot # "started") => boot = "returned"
     /\ Served => boot = "started" /\ boot' = "started"]_vars

\* Both attempts failed, with the delay between them; the server then
\* started and greeted a connection.
C27_Witness ==
  /\ boot = "started"
  /\ createCalls = MaxAttempts
  /\ sliderRepository = "null"
  /\ last.kind = "connection"
  /\ clients # <<>>
(***************************************************************************)
(* C26. Retry backoff schedule: the k-th failed attempt to open the        *)
(* repository, with k < maxAttempts, is followed by a timer of             *)
(* baseDelay * k, and the next attempt is made only once that timer has    *)
(* fired; the last failed attempt sets no timer and the startup goes on.   *)
(***************************************************************************)
C26_RetryBackoff ==
  [][/\ (boot = "creating" /\ boot' \notin {"creating", "returned"}) =>
          IF createCalls < maxAttempts
          THEN boot' = "delaying" /\ delayMs' = BaseDelayMs * createCalls
          ELSE boot' = "loop" /\ delayMs' = 0 /\ createCalls = maxAttempts
     /\ (boot = "delaying" /\ boot' # "delaying") =>
          boot' = "loop" /\ delayMs' = 0 /\ createCalls' = createCalls
     /\ (boot # "creating" /\ boot' = "creating") =>
          boot = "loop" /\ delayMs = 0]_vars

\* The second attempt has failed and the startup waits twice the base delay.
C26_Witness ==
  /\ boot = "delaying"
  /\ createCalls = 2
  /\ maxAttempts > 2
  /\ delayMs = 2 * BaseDelayMs

(***************************************************************************)
(* C30. No pool is left open by a failed open: whenever no attempt is      *)
(* under way, the pools that were created and not ended are exactly the    *)
(* pool of the repository in use, so a startup whose attempts all failed   *)
(* holds none.  createSliderRepository creates the pool before             *)
(* ensureSchema and does not end it when ensureSchema rejects.             *)
(***************************************************************************)
C30_NoPoolLeftOpen ==
  boot # "creating" =>
    pools = (IF sliderRepository = "open" THEN 1 ELSE 0)

(***************************************************************************)
(* C21. Single active instance: a call of startReplacementModelServer made *)
(* while the newest instance listens and its channel server runs (close()  *)
(* was not called on it) returns that instance, creates none, ignores its  *)
(* options and leaves the override and the clients as they are; a call     *)
(* that creates an instance gives it a null override and no clients.       *)
(* close() clears activeInstance whichever instance it was called on, so   *)
(* a second close() on an earlier handle unregisters the running instance. *)
(***************************************************************************)
Live == instance >= 1 /\ wssState = "RUNNING" /\ httpState = "listening"

C21_SingleActiveInstance ==
  [][startCall'.n = startCall.n + 1 =>
       IF Live
       THEN /\ startCall'.returned = instance
            /\ ~startCall'.created
            /\ instance' = instance
            /\ override' = override
            /\ clients' = clients
            /\ sliderRepository' = sliderRepository
            /\ httpState' = httpState
       ELSE startCall'.created =>
              override' = NullOverride /\ clients' = <<>>]_vars

====
